---- MODULE Spec2Model ----
(***************************************************************************)
(* Service lifecycle orchestration of Gas Town: the reload command         *)
(* (internal/cmd/reload.go), the reset command (cmd/reset.go) and the      *)
(* helper that stops one multiplexer session.                              *)
(*                                                                         *)
(* External collaborators (tmux, the gt daemon, the bd binary, the agent   *)
(* managers) are modelled by their interface: every call that can return   *)
(* an error in the Go code has a nondeterministic outcome.                 *)
(***************************************************************************)
EXTENDS Integers, Sequences, FiniteSets, TLC

\* ------------------------------------------------------------------ bounds
\* Largest number of rigs discoverRigs returns.
MaxRigs == 2
\* Largest number of polecats one rig holds.
MaxPolecats == 1

RigPool == <<"r1", "r2", "r3", "r4">>

VARIABLES
    pc,             \* position of the running command
    idx,            \* index of the loop the command is in
    result,         \* what RunE returned: "none" while running
    townRootFound,  \* workspace.FindFromCwdOrError succeeds
    tmuxAvailable,  \* t.IsAvailable()
    reloadMayor, reloadPolecats, reloadForce,
    rigs,           \* discoverRigs(townRoot)
    allOK,          \* runReload's allOK
    failPrinted,    \* printReloadStatus was called with ok = FALSE
    lastStatus,     \* the last printReloadStatus call
    calls,          \* stop/start operations attempted so far, in order
    bdWorkspaces,   \* runReload's bdWorkspaces
    prefetched,     \* phase 9: rig -> "pending" | "ok" | "err"
    witnessResults, refineryResults, \* phase 9: rig -> "pending" | "ok" | "fail"
    events,         \* number of events.LogFeed(TypeBoot) calls
    files,          \* paths that exist on disk (files and directories)
    dirs,           \* the existing paths that are directories
    redirects,      \* rig -> content of <rig>/.beads/redirect
    sessions,       \* names of the sessions the multiplexer is running
    resetForce, resetAll,
    input,          \* the line the operator types at the prompt, as its words
    bdRunning,      \* the store daemon of the town root is running
    locked,         \* directories that cannot be written: no entry is created or removed
    steps,          \* runReset: the steps gone through, in order
    tmuxCalls,      \* runReset: multiplexer calls made, in order
    bdCalls,        \* runReset: bd commands issued, in order
    failures,       \* runReset: the operations of the last step that failed
    warnings,       \* runReset: the warnings the last step printed
    routes,         \* records appended to <town>/.beads/routes.jsonl
    rigsConfig,     \* runReset: rigs.json as loaded, rig -> entry
    pending,        \* runReset: rigs the route loop has not visited yet
    lastStop, prevStop, \* the last two reloadStopSession calls and their results
    lastStart,      \* the last start call whose raw answer is kept, and its result
    bdUp,           \* the workspaces whose store daemon is running
    bdOutput,       \* deleteAllBeads: what the bd binary answers to its commands
    firstRun,       \* runReset: the routes log and rigs.json of the run before this one
    resolved,       \* route resolution: the identifier looked up and the answer
    authEnabled,    \* web: ah.config.Enabled
    store,          \* web: SessionStore.sessions, id -> ExpiresAt
    now,            \* web: time.Now(), in ticks
    issued,         \* web: the ids Create has returned, id -> ExpiresAt
    deleted,        \* web: the issued ids Delete was called for since
    lastReq,        \* web: the last request ServeHTTP answered, and the answer
    lastGet,        \* web: the last direct SessionStore.Get call, and the answer
    passwordHash,   \* web: ah.config.PasswordHash, <<>> when empty
    authFile,       \* web: settings/auth.json on disk
    handlers,       \* web: the /setup requests being handled, each with its position
    polecats        \* reloadStopPolecats: what the managers answer, and the calls made

cfgVars == <<townRootFound, tmuxAvailable, reloadMayor, reloadPolecats, reloadForce, rigs>>
reloadVars == <<pc, idx, result, townRootFound, tmuxAvailable, reloadMayor,
                reloadPolecats, reloadForce, rigs, allOK, failPrinted, lastStatus,
                calls, bdWorkspaces, prefetched, witnessResults, refineryResults,
                events>>
fsVars == <<files, dirs, redirects>>
resetVars == <<resetForce, resetAll, input, bdRunning, locked, steps, tmuxCalls, bdCalls,
               failures, warnings, routes, rigsConfig, pending>>
stopVars == <<lastStop, prevStop, lastStart, bdUp>>
\* Everything runReload leaves alone.
\* The state of the helpers that are run on their own.
authVars == <<authEnabled, store, now, issued, deleted, lastReq, lastGet, passwordHash,
              authFile, handlers>>
libVars == <<bdOutput, firstRun, resolved, authVars, polecats>>
otherVars == <<fsVars, sessions, resetVars, stopVars, libVars>>
vars == <<reloadVars, otherVars>>

\* ------------------------------------------------------------------ paths
\* A path is the sequence of its components; TownRoot is absolute.
TownRoot == <<"town">>

\* filepath.Clean: "." is dropped and ".." removes the component before it.
RECURSIVE CleanFrom(_, _)
CleanFrom(rest, acc) ==
    IF rest = <<>> THEN acc
    ELSE CleanFrom(Tail(rest),
                   CASE Head(rest) = "."  -> acc
                     [] Head(rest) = ".." -> SubSeq(acc, 1, Len(acc) - 1)
                     [] OTHER             -> Append(acc, Head(rest)))
Clean(p) == CleanFrom(p, <<>>)

Join(a, b) == Clean(a \o b)
Abs(p) == Clean(p)
Stat(p) == p \in files

RECURSIVE Parents(_)
Parents(p) == IF Len(p) <= 1 THEN {p} ELSE {p} \cup Parents(SubSeq(p, 1, Len(p) - 1))
WithParents(S) == UNION {Parents(p) : p \in S}

\* ------------------------------------------------------------------ status
Status(name, ok, detail) == [name |-> name, ok |-> ok, detail |-> detail]
NoStatus == Status("", TRUE, "")
Call(op, kind, rig, ws) == [op |-> op, kind |-> kind, rig |-> rig, ws |-> ws]

\* printReloadStatus(name, ok, detail): the status line is recorded whatever
\* the quiet flag says; a line with ok = FALSE is never suppressed.
printReloadStatus(name, ok, detail) ==
    /\ lastStatus' = Status(name, ok, detail)
    /\ failPrinted' = (failPrinted \/ ~ok)

noStatus == UNCHANGED <<lastStatus, failPrinted>>

\* ------------------------------------------------------------------ layouts
\* What one rig directory holds on disk, by kind.
NoRedirect == [abs |-> FALSE, path |-> <<>>]
RigDir(r) == Join(TownRoot, <<r>>)
MayorRigDir(r) == Join(RigDir(r), <<"mayor", "rig">>)

RigKinds == {"none", "db", "nested", "both", "redirectNested", "dangling", "redirectAbs",
             "redirectAbsDot", "redirectNoDb", "danglingOverDb"}

RigFiles(r, kind) ==
    LET own    == {Join(RigDir(r), <<".beads", "beads.db">>)}
        nested == {Join(MayorRigDir(r), <<".beads", "beads.db">>)}
        marker == {Join(RigDir(r), <<".beads", "redirect">>)}
    IN  WithParents(
            {RigDir(r)} \cup
            CASE kind = "none"           -> {}
              [] kind = "db"             -> own
              [] kind = "nested"         -> nested
              [] kind = "both"           -> own \cup nested
              [] kind = "redirectNested" -> marker \cup nested
              [] kind = "dangling"       -> marker
              [] kind = "redirectAbs"    -> marker \cup {<<"ext", "store", "beads.db">>}
              [] kind = "redirectAbsDot" -> marker \cup {<<"ext", "store", "beads.db">>}
              [] kind = "redirectNoDb"   -> marker \cup {<<"ext", "empty">>}
              [] kind = "danglingOverDb" -> marker \cup own)

RigRedirect(r, kind) ==
    CASE kind = "redirectNested" -> [abs |-> FALSE, path |-> <<r, "mayor", "rig", ".beads">>]
      [] kind = "dangling"       -> [abs |-> FALSE, path |-> <<r, "gone">>]
      [] kind = "redirectAbs"    -> [abs |-> TRUE, path |-> <<"ext", "store">>]
      [] kind = "redirectAbsDot" -> [abs |-> TRUE, path |-> <<"ext", ".", "store">>]
      [] kind = "redirectNoDb"   -> [abs |-> TRUE, path |-> <<"ext", "empty">>]
      [] kind = "danglingOverDb" -> [abs |-> FALSE, path |-> <<r, "gone">>]
      [] OTHER                   -> NoRedirect

TownFiles(hasDb) ==
    WithParents({TownRoot} \cup
                (IF hasDb THEN {Join(TownRoot, <<".beads", "beads.db">>)} ELSE {}))

RigSet(rs) == {rs[k] : k \in 1..Len(rs)}
\* The paths of S that have a path of S below them.
DirsOf(S) == {p \in S : \E q \in S : Len(q) > Len(p) /\ SubSeq(q, 1, Len(p)) = p}
Layout(rs, townDb, kindOf) ==
    LET fs == TownFiles(townDb) \cup UNION {RigFiles(r, kindOf[r]) : r \in RigSet(rs)}
    IN  [files     |-> fs,
         dirs      |-> DirsOf(fs) \cup {RigDir(r) : r \in RigSet(rs)},
         redirects |-> [r \in RigSet(rs) |-> RigRedirect(r, kindOf[r])]]

\* ------------------------------------------------------------------ findBdWorkspaces
\* Mutant: the target of a redirect is listed whatever it holds.
RigWorkspacesAnyTarget(r) ==
    LET rigPath      == Join(TownRoot, <<r>>)
        beadsPath    == Join(rigPath, <<".beads">>)
        redirectPath == Join(beadsPath, <<"redirect">>)
        raw          == redirects[r]
        target       == IF raw.abs THEN raw.path ELSE Join(TownRoot, raw.path)
        own ==
            IF Stat(beadsPath)
            THEN IF Stat(redirectPath)
                 THEN <<target>>
                 ELSE (IF Stat(Join(beadsPath, <<"beads.db">>)) THEN <<rigPath>> ELSE <<>>)
            ELSE <<>>
        mayorRigPath == Join(rigPath, <<"mayor", "rig">>)
        nested ==
            IF Stat(Join(mayorRigPath, <<".beads", "beads.db">>))
            THEN <<mayorRigPath>> ELSE <<>>
    IN  own \o nested

\* What the loop body of findBdWorkspaces appends for rig r.
RigWorkspaces(r) ==
    LET rigPath      == Join(TownRoot, <<r>>)
        beadsPath    == Join(rigPath, <<".beads">>)
        redirectPath == Join(beadsPath, <<"redirect">>)
        raw          == redirects[r]
        target       == IF raw.abs THEN raw.path ELSE Join(TownRoot, raw.path)
        own ==
            IF Stat(beadsPath)
            THEN IF Stat(redirectPath)
                 THEN (IF Stat(Join(target, <<"beads.db">>)) THEN <<target>> ELSE <<>>)
                 ELSE (IF Stat(Join(beadsPath, <<"beads.db">>)) THEN <<rigPath>> ELSE <<>>)
            ELSE <<>>
        mayorRigPath == Join(rigPath, <<"mayor", "rig">>)
        nested ==
            IF Stat(Join(mayorRigPath, <<".beads", "beads.db">>))
            THEN <<mayorRigPath>> ELSE <<>>
    IN  own \o nested

RECURSIVE Candidates(_, _)
Candidates(rs, k) ==
    IF k > Len(rs) THEN <<>> ELSE RigWorkspaces(rs[k]) \o Candidates(rs, k + 1)

\* Mutant: a path that was seen before is kept.
RECURSIVE UniqueKeepSeen(_, _)
UniqueKeepSeen(ws, seen) ==
    IF ws = <<>> THEN <<>>
    ELSE LET absPath == Abs(Head(ws))
         IN  IF ~Stat(absPath)
             THEN UniqueKeepSeen(Tail(ws), seen)
             ELSE <<absPath>> \o UniqueKeepSeen(Tail(ws), seen \cup {absPath})

\* The deduplication loop of findBdWorkspaces over ws, given the paths seen.
RECURSIVE Unique(_, _)
Unique(ws, seen) ==
    IF ws = <<>> THEN <<>>
    ELSE LET absPath == Abs(Head(ws))
         IN  IF ~Stat(absPath) \/ absPath \in seen
             THEN Unique(Tail(ws), seen)
             ELSE <<absPath>> \o Unique(Tail(ws), seen \cup {absPath})

findBdWorkspaces(townRoot) ==
    LET main == IF Stat(Join(townRoot, <<".beads", "beads.db">>)) THEN <<townRoot>> ELSE <<>>
    IN  Unique(main \o Candidates(rigs, 1), {})

\* ------------------------------------------------------------------ collaborators
\* session.TownSessions(): the town-level sessions, in stop order.
TownSessions ==
    << [Name |-> "Mayor",  SessionID |-> <<"hq", "mayor">>],
       [Name |-> "Boot",   SessionID |-> <<"hq", "boot">>],
       [Name |-> "Deacon", SessionID |-> <<"hq", "deacon">>] >>

\* The multiplexer calls one stop of a session makes, in order.
StopResult(wasRunning, err, tmux) == [wasRunning |-> wasRunning, err |-> err, tmux |-> tmux]

\* Mutant: the session is interrupted and killed without looking at the
\* status check.
reloadStopSessionBlind(running, hasErr, killErr, force) ==
    IF hasErr THEN StopResult(FALSE, "has-session failed", <<"has">>)
    ELSE StopResult(TRUE,
                    IF killErr THEN "kill failed" ELSE "nil",
                    <<"has">> \o (IF ~force THEN <<"keys", "sleep">> ELSE <<>>) \o <<"kill">>)

\* Mutant: a status check that fails counts as `not running`.
reloadStopSessionSwallowsError(running, hasErr, killErr, force) ==
    IF hasErr \/ ~running THEN StopResult(FALSE, "nil", <<"has">>)
    ELSE StopResult(TRUE,
                    IF killErr THEN "kill failed" ELSE "nil",
                    <<"has">> \o (IF ~force THEN <<"keys", "sleep">> ELSE <<>>) \o <<"kill">>)

\* Mutant: the session is killed at once, the flag is not looked at.
reloadStopSessionNoGrace(running, hasErr, killErr, force) ==
    IF hasErr THEN StopResult(FALSE, "has-session failed", <<"has">>)
    ELSE IF ~running THEN StopResult(FALSE, "nil", <<"has">>)
    ELSE StopResult(TRUE, IF killErr THEN "kill failed" ELSE "nil", <<"has", "kill">>)

\* reloadStopSession(t, sessionName), given what t.HasSession returned
\* (running, hasErr), whether the kill fails, and the reloadForce flag.
reloadStopSession(running, hasErr, killErr, force) ==
    IF hasErr THEN StopResult(FALSE, "has-session failed", <<"has">>)
    ELSE IF ~running THEN StopResult(FALSE, "nil", <<"has">>)
    ELSE StopResult(TRUE,
                    IF killErr THEN "kill failed" ELSE "nil",
                    <<"has">> \o (IF ~force THEN <<"keys", "sleep">> ELSE <<>>) \o <<"kill">>)

\* session.StopTownSession(t, ts, force): the session-backed unit stop of the
\* orchestrator contract.
StopTownSession(running, hasErr, killErr, force) ==
    IF hasErr THEN StopResult(FALSE, "has-session failed", <<"has">>)
    ELSE IF ~running THEN StopResult(FALSE, "nil", <<"has">>)
    ELSE StopResult(TRUE,
                    IF killErr THEN "kill failed" ELSE "nil",
                    <<"has">> \o (IF ~force THEN <<"keys", "sleep">> ELSE <<>>) \o <<"kill">>)

\* strings.Contains on texts that are sequences of words.
Contains(text, sub) ==
    \E k \in 0..(Len(text) - Len(sub)) : SubSeq(text, k + 1, k + Len(sub)) = sub

\* Mutant: every non-zero exit of `bd daemon start` is an error.
startBdDaemonStrict(cmdErr, saysAlreadyRunning) ==
    IF cmdErr THEN "start failed" ELSE "nil"

\* startBdDaemon(workspace), given whether `bd daemon start` exited non-zero
\* and whether its output contains "already running".
startBdDaemon(cmdErr, saysAlreadyRunning) ==
    IF cmdErr THEN (IF saysAlreadyRunning THEN "nil" ELSE "start failed") ELSE "nil"

\* stopBdDaemon(workspace): the exit status of `bd daemons stop <workspace>`.
stopBdDaemon(cmdErr) == IF cmdErr THEN "stop failed" ELSE "nil"

\* reloadStopPolecats: what one rig's polecat manager answers.
BoolSeqs(n) == UNION {[1..k -> BOOLEAN] : k \in 0..n}
PolecatOutcomes ==
    {[load |-> "rigErr", stops |-> <<>>], [load |-> "listErr", stops |-> <<>>]}
    \cup {[load |-> "ok", stops |-> s] : s \in BoolSeqs(MaxPolecats)}

RECURSIVE CountTrue(_)
CountTrue(s) == IF s = <<>> THEN 0 ELSE (IF Head(s) THEN 1 ELSE 0) + CountTrue(Tail(s))

\* One call on a rig manager or a polecat session manager; polecat is the
\* position of the polecat in the list, 0 when the call has none.
MgrCall(op, rig, polecat) == [op |-> op, rig |-> rig, polecat |-> polecat]

\* Mutant: the loop over the rigs ends at the first rig that cannot be loaded.
RECURSIVE reloadStopPolecatsUntilError(_, _)
reloadStopPolecatsUntilError(rigNames, outcome) ==
    IF rigNames = <<>> THEN [stopped |-> 0, calls |-> <<>>]
    ELSE LET r == Head(rigNames)
             o == outcome[r]
             rest == reloadStopPolecatsUntilError(Tail(rigNames), outcome)
         IN  IF o.load = "rigErr"
             THEN [stopped |-> 0, calls |-> <<MgrCall("GetRig", r, 0)>>]
             ELSE IF o.load = "listErr"
             THEN [stopped |-> 0,
                   calls |-> <<MgrCall("GetRig", r, 0), MgrCall("List", r, 0)>>]
             ELSE [stopped |-> CountTrue(o.stops) + rest.stopped,
                   calls |-> <<MgrCall("GetRig", r, 0), MgrCall("List", r, 0)>>
                             \o [k \in DOMAIN o.stops |-> MgrCall("Stop", r, k)]
                             \o rest.calls]

\* reloadStopPolecats: the number of polecats stopped, and the calls made on
\* the rig manager and the polecat managers.
RECURSIVE reloadStopPolecats(_, _)
reloadStopPolecats(rigNames, outcome) ==
    IF rigNames = <<>> THEN [stopped |-> 0, calls |-> <<>>]
    ELSE LET r == Head(rigNames)
             o == outcome[r]
             rest == reloadStopPolecats(Tail(rigNames), outcome)
         IN  IF o.load = "rigErr"
             THEN [stopped |-> rest.stopped,
                   calls |-> <<MgrCall("GetRig", r, 0)>> \o rest.calls]
             ELSE IF o.load = "listErr"
             THEN [stopped |-> rest.stopped,
                   calls |-> <<MgrCall("GetRig", r, 0), MgrCall("List", r, 0)>>
                             \o rest.calls]
             ELSE [stopped |-> CountTrue(o.stops) + rest.stopped,
                   calls |-> <<MgrCall("GetRig", r, 0), MgrCall("List", r, 0)>>
                             \o [k \in DOMAIN o.stops |-> MgrCall("Stop", r, k)]
                             \o rest.calls]

Digits == <<"0", "1", "2", "3", "4", "5", "6", "7", "8", "9">>
\* fmt.Sprintf("%d", n), n >= 0
RECURSIVE Itoa(_)
Itoa(n) == IF n < 10 THEN Digits[n + 1] ELSE Itoa(n \div 10) \o Digits[(n % 10) + 1]

\* ------------------------------------------------------------------ runReload
\* Mutant: the store daemons are started before they are stopped.
PhaseAfterStartFirst(p) ==
    CASE p = "start"   -> "p1"
      [] p = "p1"      -> "p2r"
      [] p = "p2r"     -> "p3"
      [] p = "p3"      -> "p4"
      [] p = "p4"      -> "p5find"
      [] p = "p5find"  -> "p6"
      [] p = "p6"      -> "p5"
      [] p = "p5"      -> "p7"
      [] p = "p7"      -> "p8m"
      [] p = "p8m"     -> "p8d"
      [] p = "p8d"     -> "p9pre"
      [] p = "p9pre"   -> "p9start"
      [] p = "p9start" -> "p9fold"
      [] p = "p9fold"  -> "p10"
      [] p = "p10"     -> "summary"
      [] p = "summary" -> "done"

\* The phases of runReload in program order.
PhaseAfter(p) ==
    CASE p = "start"   -> "p1"
      [] p = "p1"      -> "p2r"
      [] p = "p2r"     -> "p3"
      [] p = "p3"      -> "p4"
      [] p = "p4"      -> "p5find"
      [] p = "p5find"  -> "p5"
      [] p = "p5"      -> "p6"
      [] p = "p6"      -> "p7"
      [] p = "p7"      -> "p8m"
      [] p = "p8m"     -> "p8d"
      [] p = "p8d"     -> "p9pre"
      [] p = "p9pre"   -> "p9start"
      [] p = "p9start" -> "p9fold"
      [] p = "p9fold"  -> "p10"
      [] p = "p10"     -> "summary"
      [] p = "summary" -> "done"

\* Mutant: the flag follows the last outcome only.
FoldOKLast(cur, ok) == ok

\* allOK after one more outcome: `allOK = false` on failure, untouched otherwise.
FoldOK(cur, ok) == IF ok THEN cur ELSE FALSE

\* The `if err != nil {...; allOK = false} else if wasRunning {...}` of phases 2, 3.
RecordStop(name, r) ==
    /\ allOK' = FoldOK(allOK, r.err = "nil")
    /\ IF r.err # "nil" THEN printReloadStatus(name, FALSE, r.err)
       ELSE IF r.wasRunning THEN printReloadStatus(name, TRUE, "stopped")
       ELSE noStatus

\* The `if err != nil {...; allOK = false} else {...}` of the start phases.
RecordStart(name, err, detail) ==
    /\ allOK' = FoldOK(allOK, err = "nil")
    /\ IF err # "nil" THEN printReloadStatus(name, FALSE, err)
       ELSE printReloadStatus(name, TRUE, detail)

Goto(p) == pc' = p /\ idx' = 1
Attempt(op, kind, rig, ws) == calls' = Append(calls, Call(op, kind, rig, ws))

phase9Vars == <<prefetched, witnessResults, refineryResults>>

\* Mutant: the multiplexer is not asked whether it is available.
ReloadStartNoTmuxCheck ==
    /\ pc = "start"
    /\ IF ~townRootFound
       THEN result' = "not in a Gas Town workspace" /\ Goto("done")
       ELSE result' = result /\ Goto(PhaseAfter("start"))
    /\ UNCHANGED <<cfgVars, allOK, failPrinted, lastStatus, calls, bdWorkspaces,
                   phase9Vars, events, otherVars>>

ReloadStart ==
    /\ pc = "start"
    /\ IF ~townRootFound
       THEN result' = "not in a Gas Town workspace" /\ Goto("done")
       ELSE IF ~tmuxAvailable
       THEN result' = "tmux not available" /\ Goto("done")
       ELSE result' = result /\ Goto(PhaseAfter("start"))
    /\ UNCHANGED <<cfgVars, allOK, failPrinted, lastStatus, calls, bdWorkspaces,
                   phase9Vars, events, otherVars>>

\* Phase 1: `if reloadPolecats { polecatsStopped := reloadStopPolecats(...) ... }`,
\* where outcome is what the rig manager and the polecat managers answer.
Phase1(outcome) ==
    /\ pc = "p1"
    /\ IF reloadPolecats
       THEN LET polecatsStopped == reloadStopPolecats(rigs, outcome).stopped
            IN  /\ Attempt("stop", "Polecats", "", <<>>)
                /\ printReloadStatus("Polecats", TRUE,
                       IF polecatsStopped > 0 THEN Itoa(polecatsStopped) \o " stopped"
                       ELSE "none running")
       ELSE UNCHANGED calls /\ noStatus
    /\ Goto(PhaseAfter("p1"))
    /\ UNCHANGED <<result, cfgVars, allOK, bdWorkspaces, phase9Vars, events>>

\* Phase 1 of runReload, whatever the managers answer.
StopPolecats ==
    /\ \E outcome \in [RigSet(rigs) -> PolecatOutcomes] : Phase1(outcome)
    /\ UNCHANGED otherVars

\* Mutant: a refinery stop that failed makes the loop go on to the next rig.
StopRefineryThenContinue ==
    /\ pc = "p2r" /\ idx <= Len(rigs)
    /\ \E running, hasErr, killErr \in BOOLEAN :
          LET r == reloadStopSession(running, hasErr, killErr, reloadForce)
          IN  /\ RecordStop("Refinery", r)
              /\ IF r.err # "nil" THEN pc' = "p2r" /\ idx' = idx + 1
                 ELSE pc' = "p2w" /\ idx' = idx
    /\ Attempt("stop", "Refinery", rigs[idx], <<>>)
    /\ UNCHANGED <<result, cfgVars, bdWorkspaces, phase9Vars, events, otherVars>>

\* Phase 2, refinery of rig idx
StopRefinery ==
    /\ pc = "p2r" /\ idx <= Len(rigs)
    /\ \E running, hasErr, killErr \in BOOLEAN :
          RecordStop("Refinery", reloadStopSession(running, hasErr, killErr, reloadForce))
    /\ Attempt("stop", "Refinery", rigs[idx], <<>>)
    /\ pc' = "p2w" /\ idx' = idx
    /\ UNCHANGED <<result, cfgVars, bdWorkspaces, phase9Vars, events, otherVars>>

\* Phase 2, witness of rig idx
StopWitness ==
    /\ pc = "p2w"
    /\ \E running, hasErr, killErr \in BOOLEAN :
          RecordStop("Witness", reloadStopSession(running, hasErr, killErr, reloadForce))
    /\ Attempt("stop", "Witness", rigs[idx], <<>>)
    /\ pc' = "p2r" /\ idx' = idx + 1
    /\ UNCHANGED <<result, cfgVars, bdWorkspaces, phase9Vars, events, otherVars>>

StopRigAgentsDone ==
    /\ pc = "p2r" /\ idx > Len(rigs)
    /\ Goto(PhaseAfter("p2r"))
    /\ UNCHANGED <<result, cfgVars, allOK, failPrinted, lastStatus, calls,
                   bdWorkspaces, phase9Vars, events, otherVars>>

\* Mutant: the mayor is never skipped.
SkipNothing(ts) == FALSE

\* `if ts.Name == "Mayor" && !reloadMayor { continue }`
SkipTownSession(ts) == ts.Name = "Mayor" /\ ~reloadMayor

\* Phase 3, town session idx
StopTownSessions ==
    /\ pc = "p3" /\ idx <= Len(TownSessions)
    /\ LET ts == TownSessions[idx]
       IN  IF SkipTownSession(ts)
           THEN UNCHANGED <<allOK, calls>> /\ noStatus
           ELSE /\ \E running, hasErr, killErr \in BOOLEAN :
                      RecordStop(ts.Name, StopTownSession(running, hasErr, killErr, reloadForce))
                /\ Attempt("stop", ts.Name, "", <<>>)
    /\ pc' = pc /\ idx' = idx + 1
    /\ UNCHANGED <<result, cfgVars, bdWorkspaces, phase9Vars, events, otherVars>>

StopTownSessionsDone ==
    /\ pc = "p3" /\ idx > Len(TownSessions)
    /\ Goto(PhaseAfter("p3"))
    /\ UNCHANGED <<result, cfgVars, allOK, failPrinted, lastStatus, calls,
                   bdWorkspaces, phase9Vars, events, otherVars>>

\* Phase 4
StopDaemon ==
    /\ pc = "p4"
    /\ \E running, err \in BOOLEAN :
          IF running
          THEN /\ Attempt("stop", "Daemon", "", <<>>)
               /\ allOK' = FoldOK(allOK, ~err)
               /\ IF err THEN printReloadStatus("Daemon", FALSE, "stop failed")
                  ELSE printReloadStatus("Daemon", TRUE, "stopped")
          ELSE UNCHANGED <<calls, allOK>> /\ noStatus
    /\ Goto(PhaseAfter("p4"))
    /\ UNCHANGED <<result, cfgVars, bdWorkspaces, phase9Vars, events, otherVars>>

\* Phase 5: the workspaces are discovered, then one stop per workspace
FindWorkspaces ==
    /\ pc = "p5find"
    /\ bdWorkspaces' = findBdWorkspaces(TownRoot)
    /\ Goto(PhaseAfter("p5find"))
    /\ UNCHANGED <<result, cfgVars, allOK, failPrinted, lastStatus, calls, phase9Vars,
                   events, otherVars>>

\* Mutant: a failed store-daemon stop is recorded like any other failure.
StopBdDaemonsRecorded ==
    /\ pc = "p5" /\ idx <= Len(bdWorkspaces)
    /\ \E cmdErr \in BOOLEAN :
          RecordStart("bd daemon", stopBdDaemon(cmdErr), "stopped")
    /\ Attempt("stop", "bd daemon", "", bdWorkspaces[idx])
    /\ pc' = pc /\ idx' = idx + 1
    /\ UNCHANGED <<result, cfgVars, bdWorkspaces, phase9Vars, events, otherVars>>

StopBdDaemons ==
    /\ pc = "p5" /\ idx <= Len(bdWorkspaces)
    /\ \E cmdErr \in BOOLEAN :
          IF stopBdDaemon(cmdErr) # "nil"
          THEN printReloadStatus("bd daemon", TRUE, "stopped (was not running)")
          ELSE printReloadStatus("bd daemon", TRUE, "stopped")
    /\ Attempt("stop", "bd daemon", "", bdWorkspaces[idx])
    /\ pc' = pc /\ idx' = idx + 1
    /\ UNCHANGED <<result, cfgVars, allOK, bdWorkspaces, phase9Vars, events, otherVars>>

StopBdDaemonsDone ==
    /\ pc = "p5" /\ idx > Len(bdWorkspaces)
    /\ Goto(PhaseAfter("p5"))
    /\ UNCHANGED <<result, cfgVars, allOK, failPrinted, lastStatus, calls,
                   bdWorkspaces, phase9Vars, events, otherVars>>

\* Mutant: phase 6 discovers the workspaces again.
StartBdDaemonsRediscovered ==
    /\ pc = "p6" /\ idx <= Len(findBdWorkspaces(TownRoot))
    /\ \E cmdErr, saysAlreadyRunning \in BOOLEAN :
          RecordStart("bd daemon", startBdDaemon(cmdErr, saysAlreadyRunning), "started")
    /\ Attempt("start", "bd daemon", "", findBdWorkspaces(TownRoot)[idx])
    /\ pc' = pc /\ idx' = idx + 1
    /\ UNCHANGED <<result, cfgVars, bdWorkspaces, phase9Vars, events, otherVars>>

\* Phase 6, workspace idx
StartBdDaemons ==
    /\ pc = "p6" /\ idx <= Len(bdWorkspaces)
    /\ \E cmdErr, saysAlreadyRunning \in BOOLEAN :
          RecordStart("bd daemon", startBdDaemon(cmdErr, saysAlreadyRunning), "started")
    /\ Attempt("start", "bd daemon", "", bdWorkspaces[idx])
    /\ pc' = pc /\ idx' = idx + 1
    /\ UNCHANGED <<result, cfgVars, bdWorkspaces, phase9Vars, events, otherVars>>

StartBdDaemonsDone ==
    /\ pc = "p6" /\ idx > Len(bdWorkspaces)
    /\ Goto(PhaseAfter("p6"))
    /\ UNCHANGED <<result, cfgVars, allOK, failPrinted, lastStatus, calls,
                   bdWorkspaces, phase9Vars, events, otherVars>>

\* Phase 7
StartDaemon ==
    /\ pc = "p7"
    /\ \E err, running \in BOOLEAN :
          /\ allOK' = FoldOK(allOK, ~err)
          /\ IF err THEN printReloadStatus("Daemon", FALSE, "ensureDaemon failed")
             ELSE IF running THEN printReloadStatus("Daemon", TRUE, "PID")
             ELSE noStatus
    /\ Attempt("start", "Daemon", "", <<>>)
    /\ Goto(PhaseAfter("p7"))
    /\ UNCHANGED <<result, cfgVars, bdWorkspaces, phase9Vars, events, otherVars>>

\* What mayor.Manager.Start and deacon.Manager.Start return.
ManagerStartErrors == {"nil", "ErrAlreadyRunning", "start failed"}
\* Mutant: `err != nil`
StartSessionErrStrict(err) == err
\* `err != nil && err != ErrAlreadyRunning`
StartSessionErr(err) == IF err = "ErrAlreadyRunning" THEN "nil" ELSE err

\* What mgr.Start("") returned for the session and what phase 8 made of it.
ManagerStart(session, err) ==
    [ws |-> session, wasUp |-> err = "ErrAlreadyRunning", cmdErr |-> err # "nil",
     output |-> <<err>>, err |-> StartSessionErr(err)]

\* Phase 8, mayor
StartMayor ==
    /\ pc = "p8m"
    /\ IF reloadMayor
       THEN /\ \E err \in ManagerStartErrors :
                  /\ RecordStart("Mayor", StartSessionErr(err), "hq-mayor")
                  /\ lastStart' = ManagerStart(<<"hq", "mayor">>, err)
            /\ Attempt("start", "Mayor", "", <<>>)
       ELSE UNCHANGED <<allOK, calls, lastStart>> /\ noStatus
    /\ Goto(PhaseAfter("p8m"))
    /\ UNCHANGED <<result, cfgVars, bdWorkspaces, phase9Vars, events, fsVars, sessions,
                   resetVars, lastStop, prevStop, bdUp, libVars>>

\* Phase 8, deacon
StartDeacon ==
    /\ pc = "p8d"
    /\ \E err \in ManagerStartErrors :
          /\ RecordStart("Deacon", StartSessionErr(err), "hq-deacon")
          /\ lastStart' = ManagerStart(<<"hq", "deacon">>, err)
    /\ Attempt("start", "Deacon", "", <<>>)
    /\ Goto(PhaseAfter("p8d"))
    /\ UNCHANGED <<result, cfgVars, bdWorkspaces, phase9Vars, events, fsVars, sessions,
                   resetVars, lastStop, prevStop, bdUp, libVars>>

\* Phase 9: prefetchRigs, one task per rig, then the join
PrefetchRig(r) ==
    /\ pc = "p9pre" /\ prefetched[r] = "pending"
    /\ \E ok \in BOOLEAN :
          prefetched' = [prefetched EXCEPT ![r] = IF ok THEN "ok" ELSE "err"]
    /\ UNCHANGED <<pc, idx, result, cfgVars, allOK, failPrinted, lastStatus, calls,
                   bdWorkspaces, witnessResults, refineryResults, events, otherVars>>

PrefetchJoin ==
    /\ pc = "p9pre" /\ \A r \in RigSet(rigs) : prefetched[r] # "pending"
    /\ Goto(PhaseAfter("p9pre"))
    /\ UNCHANGED <<result, cfgVars, allOK, failPrinted, lastStatus, calls,
                   bdWorkspaces, phase9Vars, events, otherVars>>

\* Phase 9: startRigAgentsWithPrefetch, one task per rig, then the join.
\* A rig whose prefetch failed gets a failed result for both agents.
StartRigAgents(r) ==
    /\ pc = "p9start" /\ witnessResults[r] = "pending"
    /\ \E wOk, rOk \in BOOLEAN :
          LET usable == prefetched[r] = "ok"
          IN  /\ witnessResults' = [witnessResults EXCEPT
                     ![r] = IF usable /\ wOk THEN "ok" ELSE "fail"]
              /\ refineryResults' = [refineryResults EXCEPT
                     ![r] = IF usable /\ rOk THEN "ok" ELSE "fail"]
    /\ UNCHANGED <<pc, idx, result, cfgVars, allOK, failPrinted, lastStatus, calls,
                   bdWorkspaces, prefetched, events, otherVars>>

StartRigAgentsJoin ==
    /\ pc = "p9start" /\ \A r \in RigSet(rigs) : witnessResults[r] # "pending"
    /\ Goto(PhaseAfter("p9start"))
    /\ UNCHANGED <<result, cfgVars, allOK, failPrinted, lastStatus, calls,
                   bdWorkspaces, phase9Vars, events, otherVars>>

\* Mutant: only the first rig's result is looked at.
FoldResultsFirst(cur, res, rs) ==
    IF rs = <<>> THEN cur ELSE FoldOK(cur, res[Head(rs)] = "ok")

\* Phase 9: the two loops that report the per-rig results
RECURSIVE FoldResults(_, _, _)
FoldResults(cur, res, rs) ==
    IF rs = <<>> THEN cur
    ELSE FoldResults(FoldOK(cur, res[Head(rs)] = "ok"), res, Tail(rs))

ReportRigAgents ==
    /\ pc = "p9fold"
    /\ allOK' = FoldResults(FoldResults(allOK, witnessResults, rigs), refineryResults, rigs)
    /\ IF rigs = <<>> THEN noStatus
       ELSE /\ lastStatus' = Status("Refinery", refineryResults[rigs[Len(rigs)]] = "ok", "")
            /\ failPrinted' = (failPrinted
                                \/ \E r \in RigSet(rigs) :
                                      witnessResults[r] # "ok" \/ refineryResults[r] # "ok")
    /\ Goto(PhaseAfter("p9fold"))
    /\ UNCHANGED <<result, cfgVars, calls, bdWorkspaces, phase9Vars, events, otherVars>>

\* Mutant: phase 10 does not look at the flag.
StartPolecatsAlways ==
    /\ pc = "p10" /\ idx <= Len(rigs)
    /\ \E started, errors \in 0..MaxPolecats :
          /\ started + errors <= MaxPolecats
          /\ allOK' = FoldOK(allOK, errors = 0)
          /\ IF errors > 0 THEN printReloadStatus("Polecat", FALSE, "start failed")
             ELSE IF started > 0 THEN printReloadStatus("Polecat", TRUE, "started")
             ELSE noStatus
    /\ Attempt("start", "Polecats", rigs[idx], <<>>)
    /\ pc' = pc /\ idx' = idx + 1
    /\ UNCHANGED <<result, cfgVars, bdWorkspaces, phase9Vars, events, otherVars>>

\* Phase 10, rig idx: startPolecatsWithWork returns the started names and the
\* name-keyed errors.
StartPolecats ==
    /\ pc = "p10" /\ reloadPolecats /\ idx <= Len(rigs)
    /\ \E started, errors \in 0..MaxPolecats :
          /\ started + errors <= MaxPolecats
          /\ allOK' = FoldOK(allOK, errors = 0)
          /\ IF errors > 0 THEN printReloadStatus("Polecat", FALSE, "start failed")
             ELSE IF started > 0 THEN printReloadStatus("Polecat", TRUE, "started")
             ELSE noStatus
    /\ Attempt("start", "Polecats", rigs[idx], <<>>)
    /\ pc' = pc /\ idx' = idx + 1
    /\ UNCHANGED <<result, cfgVars, bdWorkspaces, phase9Vars, events, otherVars>>

StartPolecatsDone ==
    /\ pc = "p10" /\ (~reloadPolecats \/ idx > Len(rigs))
    /\ Goto(PhaseAfter("p10"))
    /\ UNCHANGED <<result, cfgVars, allOK, failPrinted, lastStatus, calls,
                   bdWorkspaces, phase9Vars, events, otherVars>>

\* Mutant: the summary never returns an error.
SummaryResultNil(ok) == "nil"

\* What runReload returns after the summary line.
SummaryResult(ok) == IF ok THEN "nil" ELSE "not all services reloaded"

\* Mutant: the event is emitted whatever the run recorded.
LogsBootAlways(ok) == TRUE
\* `if allOK { ...; _ = events.LogFeed(events.TypeBoot, ...) }`
LogsBoot(ok) == ok

\* Summary
Summary ==
    /\ pc = "summary"
    /\ events' = (IF LogsBoot(allOK) THEN events + 1 ELSE events)
    /\ result' = SummaryResult(allOK)
    /\ Goto(PhaseAfter("summary"))
    /\ UNCHANGED <<cfgVars, allOK, failPrinted, lastStatus, calls, bdWorkspaces,
                   phase9Vars, otherVars>>

\* The store layouts a reload run is checked on.
ReloadLayouts(rs) ==
    { Layout(rs, FALSE, [r \in RigSet(rs) |-> "none"]),
      Layout(rs, TRUE,  [r \in RigSet(rs) |-> "db"]),
      Layout(rs, TRUE,  [r \in RigSet(rs) |-> "redirectNested"]) }

RigLists == {SubSeq(RigPool, 1, n) : n \in 0..MaxRigs}

\* The variables of the other commands, while they are not running.
NoStopCall == [name |-> <<>>, running |-> FALSE, hasErr |-> FALSE,
               res |-> StopResult(FALSE, "nil", <<>>)]
NoStartCall == [ws |-> <<>>, wasUp |-> FALSE, cmdErr |-> FALSE, output |-> <<>>, err |-> "nil"]
NoStop ==
    /\ lastStop = NoStopCall /\ prevStop = NoStopCall
    /\ lastStart = NoStartCall /\ bdUp = {}
NoBdOutput == [prefixErr |-> FALSE, prefixOut |-> <<>>,
               listOut |-> [kind |-> "failed", issues |-> <<>>], deleteErr |-> FALSE]
NoFirstRun == [done |-> FALSE, routes |-> <<>>, rigsConfig |-> <<>>]
NoLookup == [id |-> <<>>, done |-> FALSE, found |-> FALSE, path |-> <<>>]
NoForm == [parses |-> TRUE, password |-> "", confirm |-> "", hashErr |-> FALSE,
           saveErr |-> FALSE, createErr |-> FALSE]
NoRequest == [path |-> "", method |-> "", cookie |-> <<>>, form |-> NoForm, status |-> "",
              setCookie |-> <<>>]
NoFile == [exists |-> FALSE, PasswordHash |-> <<>>, Enabled |-> FALSE]
NoGet == [id |-> "none", found |-> FALSE]
NoPolecats == [outcome |-> <<>>, done |-> FALSE, stopped |-> 0, calls |-> <<>>]
NoAuth ==
    /\ authEnabled = FALSE /\ store = <<>> /\ now = 0 /\ issued = <<>> /\ deleted = {}
    /\ lastReq = NoRequest /\ lastGet = NoGet
    /\ passwordHash = <<>> /\ authFile = NoFile /\ handlers = <<>>
NoLib ==
    /\ bdOutput = NoBdOutput /\ firstRun = NoFirstRun /\ resolved = NoLookup /\ NoAuth
    /\ polecats = NoPolecats
NoReset ==
    /\ resetForce = FALSE /\ resetAll = FALSE /\ input = <<>>
    /\ bdRunning = FALSE /\ locked = {}
    /\ steps = <<>> /\ tmuxCalls = <<>> /\ bdCalls = <<>>
    /\ failures = {} /\ warnings = {}
    /\ routes = <<>> /\ rigsConfig = <<>> /\ pending = {}
NoReload ==
    /\ idx = 1 /\ tmuxAvailable = TRUE
    /\ reloadMayor = FALSE /\ reloadPolecats = FALSE
    /\ rigs = <<>> /\ allOK = TRUE /\ failPrinted = FALSE /\ lastStatus = NoStatus
    /\ calls = <<>> /\ bdWorkspaces = <<>>
    /\ prefetched = <<>> /\ witnessResults = <<>> /\ refineryResults = <<>>
    /\ events = 0

Init ==
    /\ pc = "start" /\ idx = 1 /\ result = "none"
    /\ townRootFound \in BOOLEAN /\ tmuxAvailable \in BOOLEAN
    /\ reloadMayor \in BOOLEAN /\ reloadPolecats \in BOOLEAN /\ reloadForce \in BOOLEAN
    /\ rigs \in RigLists
    /\ allOK = TRUE /\ failPrinted = FALSE /\ lastStatus = NoStatus
    /\ calls = <<>> /\ bdWorkspaces = <<>>
    /\ prefetched = [r \in RigSet(rigs) |-> "pending"]
    /\ witnessResults = [r \in RigSet(rigs) |-> "pending"]
    /\ refineryResults = [r \in RigSet(rigs) |-> "pending"]
    /\ events = 0
    /\ \E l \in ReloadLayouts(rigs) :
          files = l.files /\ dirs = l.dirs /\ redirects = l.redirects
    /\ sessions = {} /\ NoReset /\ NoStop /\ NoLib

Next ==
    \/ ReloadStart
    \/ StopPolecats
    \/ StopRefinery \/ StopWitness \/ StopRigAgentsDone
    \/ StopTownSessions \/ StopTownSessionsDone
    \/ StopDaemon
    \/ FindWorkspaces \/ StopBdDaemons \/ StopBdDaemonsDone
    \/ StartBdDaemons \/ StartBdDaemonsDone
    \/ StartDaemon
    \/ StartMayor \/ StartDeacon
    \/ \E r \in RigSet(rigs) : PrefetchRig(r)
    \/ PrefetchJoin
    \/ \E r \in RigSet(rigs) : StartRigAgents(r)
    \/ StartRigAgentsJoin
    \/ ReportRigAgents
    \/ StartPolecats \/ StartPolecatsDone
    \/ Summary

Spec == Init /\ [][Next]_vars

\* ------------------------------------------------------------------ reload: properties
Passed == townRootFound /\ tmuxAvailable
Has(op, kind, rig, ws) == \E k \in 1..Len(calls) : calls[k] = Call(op, kind, rig, ws)

\* Every unit of every phase has its stop or start attempt in the log.
AllUnitsAttempted ==
    /\ reloadPolecats => Has("stop", "Polecats", "", <<>>)
    /\ \A r \in RigSet(rigs) :
          /\ Has("stop", "Refinery", r, <<>>) /\ Has("stop", "Witness", r, <<>>)
          /\ prefetched[r] # "pending"
          /\ witnessResults[r] # "pending" /\ refineryResults[r] # "pending"
          /\ reloadPolecats => Has("start", "Polecats", r, <<>>)
    /\ Has("stop", "Boot", "", <<>>) /\ Has("stop", "Deacon", "", <<>>)
    /\ reloadMayor => Has("stop", "Mayor", "", <<>>) /\ Has("start", "Mayor", "", <<>>)
    /\ \A k \in 1..Len(bdWorkspaces) :
          /\ Has("stop", "bd daemon", "", bdWorkspaces[k])
          /\ Has("start", "bd daemon", "", bdWorkspaces[k])
    /\ Has("start", "Daemon", "", <<>>) /\ Has("start", "Deacon", "", <<>>)

\* C1: reload is fail-soft. The overall flag is true exactly while no failed
\* outcome has been recorded (so one recorded failure keeps it false for the
\* rest of the run), and a run that passed its preconditions ends only
\* after every unit of every phase was attempted, whatever failed before.
C1_FailSoft ==
    /\ allOK = ~failPrinted
    /\ (Passed /\ pc = "done") => AllUnitsAttempted

\* A failed run in which a unit recorded after the failure was ok, and every
\* unit of two rigs was attempted.
C1_Witness ==
    /\ pc = "done" /\ result = "not all services reloaded"
    /\ lastStatus.ok /\ AllUnitsAttempted
    /\ Len(rigs) = 2 /\ Len(bdWorkspaces) >= 2

\* C2: once the root is found and the multiplexer is available, the run
\* returns nothing before the summary (no early abort); it ends only after
\* every phase was gone through, with "not all services reloaded" iff a
\* failure was recorded and with no error otherwise.
C2_ReturnsErrorIffFailure ==
    Passed =>
        /\ pc # "done" => result = "none"
        /\ pc = "done" =>
              /\ AllUnitsAttempted
              /\ result = (IF failPrinted THEN "not all services reloaded" ELSE "nil")

C2_Witness ==
    /\ Passed /\ pc = "done" /\ result = "not all services reloaded"
    /\ failPrinted /\ Len(rigs) = 2

\* The phase an attempt belongs to.
Rank(c) ==
    IF c.op = "stop"
    THEN CASE c.kind = "Polecats" -> 1
           [] c.kind \in {"Refinery", "Witness"} -> 2
           [] c.kind \in {"Mayor", "Boot", "Deacon"} -> 3
           [] c.kind = "Daemon" -> 4
           [] c.kind = "bd daemon" -> 5
    ELSE CASE c.kind = "bd daemon" -> 6
           [] c.kind = "Daemon" -> 7
           [] c.kind \in {"Mayor", "Deacon"} -> 8
           [] c.kind = "Polecats" -> 10

Phase9Active ==
    \E r \in RigSet(rigs) : prefetched[r] # "pending" \/ witnessResults[r] # "pending"

\* C3: the attempts of a run are in the canonical phase order: stops of
\* polecats, rig agents, town sessions, control daemon, store daemons, then
\* starts of store daemons, control daemon, town sessions, rig agents,
\* polecats. So every stop precedes every start, and no store daemon is
\* started before a stop was attempted on every discovered store daemon.
C3_PhaseOrder ==
    /\ \A j \in 1..Len(calls) : \A k \in j..Len(calls) : Rank(calls[j]) <= Rank(calls[k])
    /\ (\E k \in 1..Len(calls) : calls[k].op = "start") =>
          \A w \in 1..Len(bdWorkspaces) : Has("stop", "bd daemon", "", bdWorkspaces[w])
    /\ Phase9Active => Has("start", "Deacon", "", <<>>)
    /\ (\E k \in 1..Len(calls) : Rank(calls[k]) = 10) =>
          \A r \in RigSet(rigs) : witnessResults[r] # "pending"

C3_Witness ==
    /\ pc = "done" /\ reloadMayor /\ reloadPolecats
    /\ Len(rigs) = 2 /\ Len(bdWorkspaces) >= 2
    /\ \A n \in (1..8) \cup {10} : \E k \in 1..Len(calls) : Rank(calls[k]) = n
    /\ Phase9Active

MayorCalls == SelectSeq(calls, LAMBDA c : c.kind = "Mayor")
After(p) == pc \in {"p4", "p5find", "p5", "p6", "p7", "p8m", "p8d", "p9pre", "p9start",
                    "p9fold", "p10", "summary", "done"} \ p

\* C8: with includeMayor clear no stop and no start is ever addressed to the
\* mayor; with it set the mayor is stopped in the town-session stop phase
\* (right before Boot) and started in the town-session start phase (right
\* before the deacon), once each.
C8_MayorOnlyIfIncluded ==
    /\ ~reloadMayor => MayorCalls = <<>>
    /\ (reloadMayor /\ Passed) =>
          /\ After({}) => Has("stop", "Mayor", "", <<>>)
          /\ After({"p4", "p5find", "p5", "p6", "p7", "p8m"}) =>
                 MayorCalls = <<Call("stop", "Mayor", "", <<>>), Call("start", "Mayor", "", <<>>)>>
          /\ \A k \in 1..Len(calls) :
                 /\ calls[k] = Call("stop", "Mayor", "", <<>>) /\ k < Len(calls)
                       => calls[k + 1] = Call("stop", "Boot", "", <<>>)
                 /\ calls[k] = Call("start", "Mayor", "", <<>>) /\ k < Len(calls)
                       => calls[k + 1] = Call("start", "Deacon", "", <<>>)

C8_Witness ==
    /\ pc = "done" /\ reloadMayor
    /\ MayorCalls = <<Call("stop", "Mayor", "", <<>>), Call("start", "Mayor", "", <<>>)>>

\* A run with the flag clear that went through both town-session phases.
C8_WitnessClear == pc = "done" /\ Passed /\ ~reloadMayor /\ Has("start", "Deacon", "", <<>>)

\* ------------------------------------------------------------------ stopping one session
\* reloadStopSession against a multiplexer that holds the sessions.
SessionNames ==
    UNION {{<<"gt", RigPool[k], "refinery">>, <<"gt", RigPool[k], "witness">>} : k \in 1..MaxRigs}

Range(f) == {f[k] : k \in DOMAIN f}

\* One call reloadStopSession(t, name). t.HasSession answers with the state of
\* the session unless it fails; a kill that fails may or may not have ended
\* the session.
StopSession(name) ==
    /\ pc = "idle"
    /\ \E hasErr, killErr, gone \in BOOLEAN :
          LET running == name \in sessions /\ ~hasErr
              res == reloadStopSession(running, hasErr, killErr, reloadForce)
          IN  /\ lastStop' = [name |-> name, running |-> name \in sessions,
                              hasErr |-> hasErr, res |-> res]
              /\ sessions' = IF "kill" \in Range(res.tmux) /\ (~killErr \/ gone)
                             THEN sessions \ {name} ELSE sessions
    /\ prevStop' = lastStop
    /\ UNCHANGED <<reloadVars, fsVars, resetVars, lastStart, bdUp, libVars>>

StopInit ==
    /\ pc = "idle" /\ result = "none" /\ townRootFound = TRUE
    /\ reloadForce \in BOOLEAN
    /\ sessions \in SUBSET SessionNames
    /\ files = {} /\ dirs = {} /\ redirects = <<>>
    /\ NoReload /\ NoReset /\ NoStop /\ NoLib

StopNext == \E name \in SessionNames : StopSession(name)

StopSpec == StopInit /\ [][StopNext]_vars

Answered(c) == c.name # <<>> /\ ~c.hasErr

\* C10: stopping a session that the status check reports as not running
\* returns wasRunning = FALSE and no error, sends neither an interrupt nor a
\* kill, and leaves the session as it was; a second stop right after it gives
\* the same result.
C10_StopNotRunningIsNoOp ==
    /\ (Answered(lastStop) /\ ~lastStop.running) =>
          /\ lastStop.res = StopResult(FALSE, "nil", <<"has">>)
          /\ lastStop.name \notin sessions
    /\ (Answered(prevStop) /\ ~prevStop.running /\ Answered(lastStop)
            /\ lastStop.name = prevStop.name) =>
          /\ lastStop.res = prevStop.res
          /\ Range(lastStop.res.tmux) \cap {"keys", "kill"} = {}

\* Two stops in a row of a session that is not running, others running.
C10_Witness ==
    /\ Answered(prevStop) /\ Answered(lastStop)
    /\ lastStop.name = prevStop.name /\ ~prevStop.running
    /\ sessions # {}

\* ------------------------------------------------------------------ reset: files
Parent(p) == SubSeq(p, 1, Len(p) - 1)
Base(p) == p[Len(p)]
Children(d, fs) == {q \in fs : Len(q) = Len(d) + 1 /\ Parent(q) = d}

\* os.Remove(p) succeeds on a file, or an empty directory, whose directory
\* can be written.
RemoveOK(p, fs) ==
    /\ p \in fs
    /\ Parent(p) \notin locked
    /\ (p \in dirs => Children(p, fs) = {})

\* Mutant: the loop ends at the first removal that fails.
RECURSIVE RemoveEachUntilError(_, _)
RemoveEachUntilError(paths, fs) ==
    IF paths = <<>> THEN fs
    ELSE IF Head(paths) \in fs /\ ~RemoveOK(Head(paths), fs) THEN fs
    ELSE RemoveEachUntilError(Tail(paths), fs \ {Head(paths)})

\* for _, path := range paths { os.Remove(path) }: what is left on disk.
RECURSIVE RemoveEach(_, _)
RemoveEach(paths, fs) ==
    IF paths = <<>> THEN fs
    ELSE RemoveEach(Tail(paths),
                    IF RemoveOK(Head(paths), fs) THEN fs \ {Head(paths)} ELSE fs)

\* The removals of the loop that returned an error other than "not exist".
FailedRemovals(paths, fs) ==
    {"remove " \o Base(p) : p \in {q \in Range(paths) : q \in fs /\ ~RemoveOK(q, fs)}}

\* os.WriteFile(p, ...) and opening p for append: an existing file is
\* written in place, a missing one is created in its directory.
WriteOK(p, fs) ==
    IF p \in fs THEN p \notin dirs
    ELSE Parent(p) \in fs /\ Parent(p) \in dirs /\ Parent(p) \notin locked

BeadsDirs ==
    << Join(TownRoot, <<".beads">>),
       Join(TownRoot, <<"deacon", ".beads">>),
       Join(TownRoot, <<"mayor", ".beads">>) >>
DbFiles == <<"beads.db", "beads.db-shm", "beads.db-wal">>
JsonlNames == <<"issues.jsonl", "interactions.jsonl", "routes.jsonl", "molecules.jsonl">>

\* The paths of the nested loop over dirList and names, in loop order.
Product(dirList, names) ==
    [k \in 1..(Len(dirList) * Len(names)) |->
        Join(dirList[((k - 1) \div Len(names)) + 1], <<names[((k - 1) % Len(names)) + 1]>>)]

DbPaths == Product(BeadsDirs, DbFiles)
JsonlFiles == Product(BeadsDirs, JsonlNames) \o <<Join(TownRoot, <<".events.jsonl">>)>>
ActivityPath == Join(TownRoot, <<"daemon", "activity.json">>)
RuntimeDirs ==
    << Join(TownRoot, <<".runtime">>),
       Join(TownRoot, <<"mayor", ".runtime">>),
       Join(TownRoot, <<"deacon", ".runtime">>) >>
AgentStateFiles ==
    << Join(TownRoot, <<"deacon", "state.json">>),
       Join(TownRoot, <<"deacon", "heartbeat.json">>) >>
TownBeads == Join(TownRoot, <<".beads">>)
TownDb == Join(TownBeads, <<"beads.db">>)
IssuesPath == Join(TownRoot, <<".beads", "issues.jsonl">>)
RoutesPath == Join(TownBeads, <<"routes.jsonl">>)
RigsPath == Join(TownRoot, <<"mayor", "rigs.json">>)

\* Mutant: the directories inside the runtime directories are entries too.
RuntimeEntriesAll(fs) ==
    UNION {{q \in Children(RuntimeDirs[k], fs) : TRUE} : k \in DOMAIN RuntimeDirs}

\* The entries of the runtime directories that are not directories.
RuntimeEntries(fs) ==
    UNION {{q \in Children(RuntimeDirs[k], fs) : q \notin dirs} : k \in DOMAIN RuntimeDirs}

\* ------------------------------------------------------------------ reset: strings
\* Identifiers and command output are sequences of characters.
Space == {" ", "\n", "\t"}

RECURSIVE TrimLeft(_)
TrimLeft(s) == IF s # <<>> /\ Head(s) \in Space THEN TrimLeft(Tail(s)) ELSE s
RECURSIVE TrimRight(_)
TrimRight(s) ==
    IF s # <<>> /\ s[Len(s)] \in Space THEN TrimRight(SubSeq(s, 1, Len(s) - 1)) ELSE s
TrimSpace(s) == TrimRight(TrimLeft(s))

HasPrefix(s, p) == Len(s) >= Len(p) /\ SubSeq(s, 1, Len(p)) = p

\* Mutant: the dash after the prefix is not asked for.
RECURSIVE idsToDeleteNoDash(_, _)
idsToDeleteNoDash(issues, prefix) ==
    IF issues = <<>> THEN <<>>
    ELSE (IF HasPrefix(Head(issues), prefix) THEN <<Head(issues)>> ELSE <<>>)
         \o idsToDeleteNoDash(Tail(issues), prefix)

\* for _, issue := range issues { if HasPrefix(issue.ID, prefix+"-") ... }
RECURSIVE idsToDelete(_, _)
idsToDelete(issues, prefix) ==
    IF issues = <<>> THEN <<>>
    ELSE (IF HasPrefix(Head(issues), prefix \o <<"-">>) THEN <<Head(issues)>> ELSE <<>>)
         \o idsToDelete(Tail(issues), prefix)

\* fmt.Scanln(&confirm): the first word of the line is stored, also when more
\* words follow it (the error is dropped); an empty line stores nothing.
Scanln(line) == IF line = <<>> THEN "" ELSE Head(line)

\* ------------------------------------------------------------------ reset: bd and tmux
BdCall(cmd, flags, key, value, ids) ==
    [cmd |-> cmd, flags |-> flags, key |-> key, value |-> value, ids |-> ids]
TmuxCall(op, name, running) == [op |-> op, name |-> name, running |-> running]

DeaconSession == <<"hq", "deacon">>
MayorSession == <<"hq", "mayor">>

\* What `bd config get issue_prefix` and `bd --no-daemon list --json` print.
PrefixOutputs == { <<"h", "q", "\n">>, <<"g", "t", "\n">>, <<"\n">> }
ItemLists ==
    { <<>>,
      << <<"h", "q", "-", "1">>, <<"h", "q", "-", "2">>, <<"g", "t", "-", "1">> >>,
      << <<"h", "q", "x", "-", "1">>, <<"h", "q", "-", "c", "v", "-", "1">> >> }
ListOutputs ==
    {[kind |-> k, issues |-> <<>>] : k \in {"failed", "garbage"}}
        \cup {[kind |-> "json", issues |-> l] : l \in ItemLists}

\* Mutant: one delete command per matched identifier.
deleteAllBeadsOnePerId(prefixErr, prefixOut, listOut, deleteErr) ==
    LET get    == BdCall("config get", <<>>, "issue_prefix", "", <<>>)
        list   == BdCall("list", <<"--no-daemon", "--json">>, "", "", <<>>)
        prefix == TrimSpace(prefixOut)
        ids    == idsToDelete(listOut.issues, prefix)
    IN  IF prefixErr THEN [calls |-> <<get>>, err |-> "getting issue prefix"]
        ELSE IF prefix = <<>> THEN [calls |-> <<get>>, err |-> "no issue prefix configured"]
        ELSE IF listOut.kind = "failed" THEN [calls |-> <<get, list>>, err |-> "nil"]
        ELSE IF listOut.kind = "garbage"
             THEN [calls |-> <<get, list>>, err |-> "parsing issue list"]
        ELSE [calls |-> <<get, list>> \o
                        [k \in 1..Len(ids) |->
                            BdCall("delete", <<"--no-daemon", "--cascade", "--hard", "--force">>,
                                   "", "", <<ids[k]>>)],
              err   |-> IF deleteErr /\ ids # <<>> THEN "deleting beads" ELSE "nil"]

\* deleteAllBeads(townRoot): the bd commands it issues and what it returns.
deleteAllBeads(prefixErr, prefixOut, listOut, deleteErr) ==
    LET get    == BdCall("config get", <<>>, "issue_prefix", "", <<>>)
        list   == BdCall("list", <<"--no-daemon", "--json">>, "", "", <<>>)
        prefix == TrimSpace(prefixOut)
        ids    == idsToDelete(listOut.issues, prefix)
    IN  IF prefixErr THEN [calls |-> <<get>>, err |-> "getting issue prefix"]
        ELSE IF prefix = <<>> THEN [calls |-> <<get>>, err |-> "no issue prefix configured"]
        ELSE IF listOut.kind = "failed" THEN [calls |-> <<get, list>>, err |-> "nil"]
        ELSE IF listOut.kind = "garbage"
             THEN [calls |-> <<get, list>>, err |-> "parsing issue list"]
        ELSE IF Len(ids) = 0 THEN [calls |-> <<get, list>>, err |-> "nil"]
        ELSE [calls |-> <<get, list,
                          BdCall("delete", <<"--no-daemon", "--cascade", "--hard", "--force">>,
                                 "", "", ids)>>,
              err   |-> IF deleteErr THEN "deleting beads" ELSE "nil"]

\* if running, _ := t.HasSession(name); running { _ = t.KillSessionWithProcesses(name) }
\* on the sessions ss; gone says whether the kill ended the session.
resetStop(name, ss, hasErr, gone) ==
    LET running == name \in ss /\ ~hasErr
    IN  [calls    |-> <<TmuxCall("has", name, running)>>
                      \o (IF running THEN <<TmuxCall("kill", name, TRUE)>> ELSE <<>>),
         sessions |-> IF running /\ gone THEN ss \ {name} ELSE ss]

\* beads.AppendRoute(townRoot, route): one record is written to the routes
\* log, or an I/O error is returned when the log cannot be opened.
AppendRoute(route, fs, rts) ==
    IF WriteOK(RoutesPath, fs)
    THEN [err |-> FALSE, files |-> fs \cup {RoutesPath}, routes |-> Append(rts, route)]
    ELSE [err |-> TRUE, files |-> fs, routes |-> rts]

\* Mutant: every route points at the town root.
RouteToRoot(prefix, path) == [Prefix |-> prefix, Path |-> <<".">>]
\* beads.Route{Prefix: prefix, Path: path}
Route(prefix, path) == [Prefix |-> prefix, Path |-> path]

\* ------------------------------------------------------------------ runReset
ResetSteps ==
    << "StopAgents", "StopCache", "PurgeWorkItems", "PurgeStoreFiles", "PurgeLogs",
       "PurgeRuntimeState", "RecreateStore", "RestoreConfig", "RebuildRoutes", "Done" >>

\* Mutant: the work items are purged before the store daemon is stopped.
ResetAfterPurgeFirst(p) ==
    CASE p = "Confirm"           -> "StopAgents"
      [] p = "StopAgents"        -> "PurgeWorkItems"
      [] p = "PurgeWorkItems"    -> "StopCache"
      [] p = "StopCache"         -> "PurgeStoreFiles"
      [] p = "PurgeStoreFiles"   -> "PurgeLogs"
      [] p = "PurgeLogs"         -> "PurgeRuntimeState"
      [] p = "PurgeRuntimeState" -> "RecreateStore"
      [] p = "RecreateStore"     -> "RestoreConfig"
      [] p = "RestoreConfig"     -> "RebuildRoutes"
      [] OTHER                   -> "exit"

\* The step runReset goes to when step p is over.
ResetAfter(p) ==
    CASE p = "Confirm"           -> "StopAgents"
      [] p = "StopAgents"        -> "StopCache"
      [] p = "StopCache"         -> "PurgeWorkItems"
      [] p = "PurgeWorkItems"    -> "PurgeStoreFiles"
      [] p = "PurgeStoreFiles"   -> "PurgeLogs"
      [] p = "PurgeLogs"         -> "PurgeRuntimeState"
      [] p = "PurgeRuntimeState" -> "RecreateStore"
      [] p = "RecreateStore"     -> "RestoreConfig"
      [] p = "RestoreConfig"     -> "RebuildRoutes"
      [] OTHER                   -> "exit"

\* Step p begins: it is logged, and the run goes on to the step after it.
Step(p) == pc = p /\ steps' = Append(steps, p) /\ pc' = ResetAfter(p)

resetCfg == <<townRootFound, resetForce, resetAll, input, locked>>
resetFrame == <<idx, tmuxAvailable, reloadMayor, reloadPolecats, reloadForce, rigs, allOK,
                failPrinted, lastStatus, calls, bdWorkspaces, prefetched, witnessResults,
                refineryResults, events, redirects, stopVars, libVars, resetCfg>>

ResetStart ==
    /\ pc = "start"
    /\ IF townRootFound
       THEN pc' = "Confirm" /\ UNCHANGED result
       ELSE pc' = "exit" /\ result' = "error: not in a Gas Town workspace"
    /\ UNCHANGED <<resetFrame, files, dirs, sessions, bdRunning, steps, tmuxCalls, bdCalls,
                   failures, warnings, routes, rigsConfig, pending>>

Confirm ==
    /\ pc = "Confirm"
    /\ IF ~resetForce /\ Scanln(input) # "reset"
       THEN pc' = "exit" /\ result' = "nil"
       ELSE pc' = ResetAfter("Confirm") /\ UNCHANGED result
    /\ UNCHANGED <<resetFrame, files, dirs, sessions, bdRunning, steps, tmuxCalls, bdCalls,
                   failures, warnings, routes, rigsConfig, pending>>

\* Mutant: the mayor is stopped whatever the flag says.
StopsMayorAlways == TRUE
\* if resetAll { ... }
StopsMayor == resetAll

StopAgents ==
    /\ Step("StopAgents")
    /\ \E hasErrD, goneD, hasErrM, goneM \in BOOLEAN :
          LET d == resetStop(DeaconSession, sessions, hasErrD, goneD)
              m == IF StopsMayor
                   THEN resetStop(MayorSession, d.sessions, hasErrM, goneM)
                   ELSE [calls |-> <<>>, sessions |-> d.sessions]
          IN  /\ tmuxCalls' = tmuxCalls \o d.calls \o m.calls
              /\ sessions' = m.sessions
    /\ failures' = {} /\ warnings' = {}
    /\ UNCHANGED <<resetFrame, result, files, dirs, bdRunning, bdCalls, routes, rigsConfig,
                   pending>>

\* exec.Command("bd", "daemon", "stop", townRoot): the error is dropped.
StopCache ==
    /\ Step("StopCache")
    /\ \E err \in BOOLEAN :
          /\ bdRunning' = (bdRunning /\ err)
          /\ failures' = IF err THEN {"daemon stop"} ELSE {}
    /\ bdCalls' = Append(bdCalls, BdCall("daemon stop", <<>>, "", "", <<>>))
    /\ warnings' = {}
    /\ UNCHANGED <<resetFrame, result, files, dirs, sessions, tmuxCalls, routes, rigsConfig,
                   pending>>

PurgeWorkItems ==
    /\ Step("PurgeWorkItems")
    /\ \E prefixErr, deleteErr \in BOOLEAN, prefixOut \in PrefixOutputs,
          listOut \in ListOutputs :
          LET r == deleteAllBeads(prefixErr, prefixOut, listOut, deleteErr)
          IN  /\ bdCalls' = bdCalls \o r.calls
              /\ failures' = IF r.err = "nil" THEN {} ELSE {r.err}
              /\ warnings' = IF r.err = "nil" THEN {} ELSE {"Could not delete beads"}
    /\ UNCHANGED <<resetFrame, result, files, dirs, sessions, bdRunning, tmuxCalls, routes,
                   rigsConfig, pending>>

\* The removal loop of one purge step, over paths.
Purge(paths) ==
    /\ files' = RemoveEach(paths, files)
    /\ dirs' = dirs \cap files'
    /\ routes' = IF RoutesPath \in files' THEN routes ELSE <<>>
    /\ failures' = FailedRemovals(paths, files)
    /\ warnings' = {}
    /\ UNCHANGED <<resetFrame, result, sessions, bdRunning, tmuxCalls, bdCalls, rigsConfig,
                   pending>>

PurgeStoreFiles == Step("PurgeStoreFiles") /\ Purge(DbPaths)

PurgeLogs == Step("PurgeLogs") /\ Purge(JsonlFiles \o <<ActivityPath>>)

\* The entries of a directory are removed in the order os.ReadDir lists
\* them; none of them is a directory, so the order makes no difference.
SetToSeq(S) ==
    CHOOSE f \in [1..Cardinality(S) -> S] : \A i, j \in 1..Cardinality(S) : i # j => f[i] # f[j]

PurgeRuntimeState ==
    Step("PurgeRuntimeState") /\ Purge(SetToSeq(RuntimeEntries(files)) \o AgentStateFiles)

\* `bd init` can create the town store only where it can write it.
CanInit ==
    IF TownBeads \in files THEN TownBeads \in dirs /\ WriteOK(TownDb, files)
    ELSE TownRoot \notin locked

\* exec.Command("bd", "init", "--quiet", "--from-jsonl") in townRoot.
RecreateStore ==
    /\ Step("RecreateStore")
    /\ \E err \in BOOLEAN :
          /\ ~CanInit => err
          /\ files' = IF err THEN files ELSE files \cup {TownBeads, TownDb}
          /\ dirs' = IF err THEN dirs ELSE dirs \cup {TownBeads}
          /\ failures' = IF err THEN {"init"} ELSE {}
          /\ warnings' = IF err THEN {"Could not recreate database"} ELSE {}
    /\ bdCalls' = Append(bdCalls, BdCall("init", <<"--quiet", "--from-jsonl">>, "", "", <<>>))
    /\ UNCHANGED <<resetFrame, result, sessions, bdRunning, tmuxCalls, routes, rigsConfig,
                   pending>>

ConfigFacts ==
    << [key |-> "issue_prefix",     value |-> "hq",
        warning |-> "Could not restore town prefix"],
       [key |-> "allowed_prefixes", value |-> "hq,hq-cv",
        warning |-> "Could not restore allowed prefixes"],
       [key |-> "types.custom",
        value |-> "agent,role,rig,convoy,slot,queue,event,message,molecule,gate,merge-request",
        warning |-> "Could not restore custom types"] >>

\* The three `bd config set` commands; errs[k] says whether the k-th failed.
RestoreConfig ==
    /\ Step("RestoreConfig")
    /\ \E errs \in [DOMAIN ConfigFacts -> BOOLEAN] :
          /\ failures' = {"config set " \o ConfigFacts[k].key : k \in {j \in DOMAIN errs : errs[j]}}
          /\ warnings' = {ConfigFacts[k].warning : k \in {j \in DOMAIN errs : errs[j]}}
    /\ bdCalls' = bdCalls \o [k \in DOMAIN ConfigFacts |->
                                 BdCall("config set", <<>>, ConfigFacts[k].key,
                                        ConfigFacts[k].value, <<>>)]
    /\ UNCHANGED <<resetFrame, result, files, dirs, sessions, bdRunning, tmuxCalls, routes,
                   rigsConfig, pending>>

\* if _, err := os.Stat(issuesPath); os.IsNotExist(err) { os.WriteFile(issuesPath, ...) }
EnsurePrimaryLog ==
    /\ pc = "RebuildRoutes"
    /\ steps' = Append(steps, "RebuildRoutes")
    /\ pc' = "AppendTownRoute"
    /\ IF ~Stat(IssuesPath)
       THEN IF WriteOK(IssuesPath, files)
            THEN files' = files \cup {IssuesPath} /\ failures' = {} /\ warnings' = {}
            ELSE /\ UNCHANGED files
                 /\ failures' = {"create issues.jsonl"}
                 /\ warnings' = {"Could not create issues.jsonl"}
       ELSE UNCHANGED files /\ failures' = {} /\ warnings' = {}
    /\ UNCHANGED <<resetFrame, result, dirs, sessions, bdRunning, tmuxCalls, bdCalls, routes,
                   rigsConfig, pending>>

\* Mutant: a route that could not be appended is not reported.
RestoreQuiet(route, label) ==
    LET r == AppendRoute(route, files, routes)
    IN  /\ files' = r.files
        /\ routes' = r.routes
        /\ failures' = failures \cup (IF r.err THEN {"append route " \o label} ELSE {})
        /\ warnings' = warnings

\* One beads.AppendRoute call of runReset, with its warning.
Restore(route, label) ==
    LET r == AppendRoute(route, files, routes)
    IN  /\ files' = r.files
        /\ routes' = r.routes
        /\ failures' = failures \cup (IF r.err THEN {"append route " \o label} ELSE {})
        /\ warnings' = warnings \cup (IF r.err THEN {"Could not restore " \o label} ELSE {})

AppendTownRoute ==
    /\ pc = "AppendTownRoute"
    /\ pc' = "LoadRigs"
    /\ Restore(Route("hq-", <<".">>), "town route")
    /\ UNCHANGED <<resetFrame, result, dirs, sessions, bdRunning, steps, tmuxCalls, bdCalls,
                   rigsConfig, pending>>

\* The entries rigs.json can hold for one rig.
RigEntry(hasBeads, prefix) == [BeadsConfig |-> hasBeads, Prefix |-> prefix]
RigNames == RigSet(SubSeq(RigPool, 1, MaxRigs))
\* What rigs.json can hold: every rig declares its prefix, but for at most one.
RigsConfigs ==
    {[r \in S |-> RigEntry(TRUE, r)] : S \in SUBSET RigNames}
        \cup {[r \in RigNames |-> IF r = odd THEN e ELSE RigEntry(TRUE, r)] :
                  odd \in RigNames, e \in {RigEntry(FALSE, ""), RigEntry(TRUE, "")}}

\* config.LoadRigsConfig(rigsPath)
LoadRigs ==
    /\ pc = "LoadRigs"
    /\ pc' = "RigRoutes"
    /\ IF Stat(RigsPath)
       THEN \E cfg \in RigsConfigs, err \in BOOLEAN :
               /\ rigsConfig' = IF err THEN <<>> ELSE cfg
               /\ pending' = DOMAIN rigsConfig'
       ELSE rigsConfig' = <<>> /\ pending' = {}
    /\ UNCHANGED <<resetFrame, result, files, dirs, sessions, bdRunning, steps, tmuxCalls,
                   bdCalls, failures, warnings, routes>>

\* One round of `for rigName, rig := range rigsConfig.Rigs`: a Go map is
\* ranged over in an order that is not specified.
AppendRigRoute(rigName) ==
    /\ pc = "RigRoutes"
    /\ rigName \in pending
    /\ pending' = pending \ {rigName}
    /\ LET rig == rigsConfig[rigName]
           mayorRigBeads == Join(TownRoot, <<rigName, "mayor", "rig", ".beads">>)
           routePath == IF Stat(mayorRigBeads) THEN <<rigName, "mayor", "rig">>
                        ELSE <<rigName>>
       IN  IF rig.BeadsConfig /\ rig.Prefix # ""
           THEN Restore(Route(rig.Prefix \o "-", routePath), "route for " \o rigName)
           ELSE UNCHANGED <<files, routes, failures, warnings>>
    /\ UNCHANGED <<resetFrame, pc, result, dirs, sessions, bdRunning, steps, tmuxCalls,
                   bdCalls, rigsConfig>>

\* Mutant: the failures of the last step are returned as the error of the run.
ResetDoneReturnsFailures ==
    /\ pc = "RigRoutes"
    /\ pending = {}
    /\ steps' = Append(steps, "Done")
    /\ pc' = "exit"
    /\ result' = (IF failures = {} THEN "nil" ELSE "error: reset incomplete")
    /\ UNCHANGED <<resetFrame, files, dirs, sessions, bdRunning, tmuxCalls, bdCalls,
                   failures, warnings, routes, rigsConfig, pending>>
\* fmt.Println(... "Reset complete ..."); return nil
ResetDone ==
    /\ pc = "RigRoutes"
    /\ pending = {}
    /\ steps' = Append(steps, "Done")
    /\ pc' = "exit"
    /\ result' = "nil"
    /\ UNCHANGED <<resetFrame, files, dirs, sessions, bdRunning, tmuxCalls, bdCalls,
                   failures, warnings, routes, rigsConfig, pending>>

\* ------------------------------------------------------------------ reset runs
ResetPaths(rel) == WithParents({Join(TownRoot, p) : p \in rel})

FullTown ==
    ResetPaths({ <<".beads", "beads.db">>, <<".beads", "beads.db-wal">>,
                 <<".beads", "issues.jsonl">>, <<".beads", "routes.jsonl">>,
                 <<".beads", "config.yaml">>, <<".events.jsonl">>,
                 <<"deacon", ".beads", "beads.db">>, <<"deacon", "state.json">>,
                 <<"deacon", ".runtime", "session.json">>,
                 <<"mayor", ".beads", "issues.jsonl">>, <<"mayor", "rigs.json">>,
                 <<"daemon", "activity.json">>,
                 <<".runtime", "handoff.json">>, <<".runtime", "keep", "note">>,
                 <<"mayor", ".runtime", "cache">>,
                 <<"r1", "mayor", "rig", ".beads", "beads.db">>,
                 <<"r2", ".beads", "beads.db">> })
\* A town whose store holds a routes log and no primary log.
NoPrimaryLog ==
    ResetPaths({ <<".beads", "beads.db">>, <<".beads", "routes.jsonl">>,
                 <<"mayor", "rigs.json">> })

\* A town that has its rig configuration and no store directory.
NoStore == ResetPaths({ <<"mayor", "rigs.json">> })

\* The directories of the towns that hold nothing.
EmptyDirs == { Join(TownRoot, <<"mayor", ".runtime", "cache">>) }

\* The towns a reset is run on: what is on disk, and the directories that
\* cannot be written.
ResetLayouts ==
    { [files |-> FullTown,     locked |-> {}],
      [files |-> FullTown,     locked |-> {Join(TownRoot, <<".runtime">>)}],
      [files |-> NoPrimaryLog, locked |-> {}],
      [files |-> NoPrimaryLog, locked |-> {TownBeads}],
      [files |-> NoStore,      locked |-> {}],
      [files |-> {TownRoot},   locked |-> {}] }

\* The lines the operator can type at the prompt.
InputLines == { <<>>, <<"reset">>, <<"no">>, <<"RESET">>, <<"reset", "now">> }

ResetInit ==
    /\ pc = "start" /\ result = "none" /\ reloadForce = FALSE
    /\ NoReload /\ NoStop /\ NoLib
    /\ redirects = <<>>
    /\ steps = <<>> /\ tmuxCalls = <<>> /\ bdCalls = <<>>
    /\ failures = {} /\ warnings = {}
    /\ rigsConfig = <<>> /\ pending = {}
    /\ townRootFound \in BOOLEAN
    /\ resetForce \in BOOLEAN /\ resetAll \in BOOLEAN
    /\ input \in (IF resetForce THEN {<<>>} ELSE InputLines)
    /\ sessions \in SUBSET {DeaconSession, MayorSession}
    /\ bdRunning \in BOOLEAN
    /\ \E l \in ResetLayouts :
          /\ files = l.files /\ locked = l.locked
          /\ dirs = DirsOf(l.files) \cup {TownRoot} \cup (EmptyDirs \cap l.files)
          /\ routes = IF RoutesPath \in l.files THEN <<Route("hq-", <<".">>)>> ELSE <<>>

ResetNext ==
    \/ ResetStart
    \/ Confirm
    \/ StopAgents
    \/ StopCache
    \/ PurgeWorkItems
    \/ PurgeStoreFiles
    \/ PurgeLogs
    \/ PurgeRuntimeState
    \/ RecreateStore
    \/ RestoreConfig
    \/ EnsurePrimaryLog
    \/ AppendTownRoute
    \/ LoadRigs
    \/ \E rigName \in RigNames : AppendRigRoute(rigName)
    \/ ResetDone

ResetSpec == ResetInit /\ [][ResetNext]_vars

\* ------------------------------------------------------------------ reset properties
IsPrefix(s, t) == Len(s) <= Len(t) /\ s = SubSeq(t, 1, Len(s))
\* The prompt was skipped or answered so that runReset went on.
Confirmed == resetForce \/ Scanln(input) = "reset"
\* The store files of the town workspace that are on disk.
TownStoreFiles(fs) ==
    {p \in fs : Parent(p) = TownBeads /\ Base(p) \in Range(DbFiles) \cup Range(JsonlNames)}

\* C4: in a reset without the force flag, an input other than the literal
\* word reset ends the run with no side effect: no session is killed, no
\* daemon stopped, no store command issued, no file removed or written; with
\* the force flag the prompt is skipped and the reset goes through its steps.
C4_OtherInputHasNoSideEffects ==
    /\ [][(~resetForce /\ input # <<"reset">>) =>
             UNCHANGED <<files, dirs, sessions, bdRunning, routes, tmuxCalls, bdCalls, steps>>]_vars
    /\ []((resetForce /\ townRootFound /\ pc = "exit") => steps = ResetSteps)

\* C5: a confirmed reset goes through StopAgents, StopCache, PurgeWorkItems,
\* PurgeStoreFiles, PurgeLogs, PurgeRuntimeState, RecreateStore,
\* RestoreConfig, RebuildRoutes, Done in exactly this order, one step at a
\* time, none skipped and none repeated.
C5_StepsInOrder ==
    /\ IsPrefix(steps, ResetSteps)
    /\ \A k \in 1..(Len(ResetSteps) - 1) :
          pc = ResetSteps[k] => steps = SubSeq(ResetSteps, 1, k - 1)
    /\ pc \in {"AppendTownRoute", "LoadRigs", "RigRoutes"} =>
          steps = SubSeq(ResetSteps, 1, Len(ResetSteps) - 1)
    /\ pc = "exit" => steps \in {<<>>, ResetSteps}
    /\ (pc = "exit" /\ townRootFound /\ Confirmed) => steps = ResetSteps
    /\ (pc = "exit" /\ ~(townRootFound /\ Confirmed)) => steps = <<>>

\* A reset confirmed at the prompt has gone through every step, with a
\* route of a rig among those written.
C5_Witness ==
    /\ pc = "exit" /\ ~resetForce /\ steps = ResetSteps
    /\ Len(routes) > 1

\* C6: the store files and the routes log of the town workspace are removed
\* or written only while the store daemon of the town is not running.
C6_StoreMutatedOnlyWhileDaemonStopped ==
    [][(TownStoreFiles(files') # TownStoreFiles(files) \/ routes' # routes) => ~bdRunning]_vars

\* C7: the primary log issues.jsonl of the town exists whenever a route is
\* appended to the routes log.
C7_PrimaryLogExistsWhenRouteAppended ==
    [][Len(routes') > Len(routes) => Stat(IssuesPath)]_vars

\* C9: a confirmed reset checks the deacon session and kills it when the
\* check reports it running; it makes a multiplexer call that names the
\* mayor only when resetAll is set, and without it the mayor session is as it
\* was before.
C9_DeaconAlwaysMayorOnlyWithAll ==
    /\ [](steps # <<>> =>
            /\ Len(tmuxCalls) >= 1
            /\ tmuxCalls[1].op = "has" /\ tmuxCalls[1].name = DeaconSession
            /\ tmuxCalls[1].running =>
                  Len(tmuxCalls) >= 2 /\ tmuxCalls[2] = TmuxCall("kill", DeaconSession, TRUE)
            /\ ~resetAll => \A k \in DOMAIN tmuxCalls : tmuxCalls[k].name # MayorSession
            /\ resetAll => \E k \in DOMAIN tmuxCalls :
                              tmuxCalls[k].op = "has" /\ tmuxCalls[k].name = MayorSession)
    /\ [](steps = <<>> => tmuxCalls = <<>>)
    /\ [][~resetAll => (MayorSession \in sessions' <=> MayorSession \in sessions)]_vars

\* A reset without resetAll is over: the deacon was killed, the mayor runs.
C9_Witness ==
    /\ pc = "exit" /\ steps = ResetSteps /\ ~resetAll
    /\ MayorSession \in sessions /\ DeaconSession \notin sessions
    /\ \E k \in DOMAIN tmuxCalls : tmuxCalls[k] = TmuxCall("kill", DeaconSession, TRUE)

\* The position of call c in the call sequence s, 0 when it is not made.
IndexOf(s, c) == IF \E k \in DOMAIN s : s[k] = c THEN CHOOSE k \in DOMAIN s : s[k] = c ELSE 0
Count(s, c) == Cardinality({k \in DOMAIN s : s[k] = c})

\* C11: a stop of a running session that is graceful sends the interrupt,
\* then waits the grace period, then kills the session's processes; a forced
\* stop sends no interrupt and waits for nothing; the kill is issued exactly
\* once in both cases, whether or not it then fails.
C11_GracefulInterruptThenKill ==
    (Answered(lastStop) /\ lastStop.running) =>
        LET tm == lastStop.res.tmux
        IN  /\ lastStop.res.wasRunning
            /\ Count(tm, "kill") = 1 /\ tm[Len(tm)] = "kill"
            /\ ~reloadForce =>
                  /\ Count(tm, "keys") = 1 /\ Count(tm, "sleep") = 1
                  /\ IndexOf(tm, "keys") < IndexOf(tm, "sleep")
                  /\ IndexOf(tm, "sleep") < IndexOf(tm, "kill")
            /\ reloadForce => tm = <<"has", "kill">>

\* Two graceful stops of the same running session: the first kill failed,
\* the second went through.
C11_Witness ==
    /\ ~reloadForce
    /\ Answered(prevStop) /\ prevStop.running /\ prevStop.res.err = "kill failed"
    /\ Answered(lastStop) /\ lastStop.running /\ lastStop.res.err = "nil"
    /\ lastStop.name = prevStop.name

\* A forced stop of a running session.
C11_WitnessForce == reloadForce /\ Answered(lastStop) /\ lastStop.running

\* ------------------------------------------------------------------ reload properties, continued
StopCalls(kind, rig) == {k \in DOMAIN calls : calls[k] = Call("stop", kind, rig, <<>>)}
InPhase2 == pc \in {"start", "p1", "p2r", "p2w"}

\* C12: for each rig the stop of the refinery is attempted right before the
\* stop of the witness, and the witness stop is attempted whatever the
\* refinery stop returned: each is attempted exactly once per rig in a run
\* that passed its preconditions.
C12_RefineryThenWitness ==
    /\ \A k \in DOMAIN calls :
          (calls[k].op = "stop" /\ calls[k].kind = "Witness") =>
              k > 1 /\ calls[k - 1] = Call("stop", "Refinery", calls[k].rig, <<>>)
    /\ pc = "p2w" =>
          /\ calls[Len(calls)] = Call("stop", "Refinery", rigs[idx], <<>>)
          /\ StopCalls("Witness", rigs[idx]) = {}
    /\ \A r \in RigSet(rigs) :
          /\ Cardinality(StopCalls("Refinery", r)) <= 1
          /\ Cardinality(StopCalls("Witness", r)) <= 1
          /\ (Passed /\ ~InPhase2) =>
                Cardinality(StopCalls("Refinery", r)) = 1 /\ Cardinality(StopCalls("Witness", r)) = 1

\* The refinery stop of the last rig failed, its witness was not running,
\* and the witness stop was attempted all the same.
C12_Witness ==
    /\ pc = "p3" /\ idx = 1 /\ Len(rigs) >= 1
    /\ lastStatus.name = "Refinery" /\ ~lastStatus.ok /\ ~allOK
    /\ calls[Len(calls)] = Call("stop", "Witness", rigs[Len(rigs)], <<>>)

\* C13: phase 5 never records a failure. Whatever the store-daemon stop
\* calls return, the steps of phase 5 leave allOK as it was and print only
\* ok lines, and once the phase is over every discovered workspace has had
\* its stop attempt, in the order of the list.
C13_StoreDaemonStopNeverFails ==
    /\ [][pc = "p5" => (allOK' = allOK /\ failPrinted' = failPrinted)]_vars
    /\ []((pc = "p5" /\ idx > 1) =>
             /\ lastStatus.name = "bd daemon" /\ lastStatus.ok
             /\ calls[Len(calls)] = Call("stop", "bd daemon", "", bdWorkspaces[idx - 1]))
    /\ []((Passed /\ After({"p4", "p5find", "p5"})) =>
             \A k \in 1..Len(bdWorkspaces) : Has("stop", "bd daemon", "", bdWorkspaces[k]))

\* Phase 5 is over, the last of several store-daemon stops failed and no
\* failure is on record.
C13_Witness ==
    /\ pc = "p6" /\ idx = 1 /\ Len(bdWorkspaces) >= 2
    /\ lastStatus = Status("bd daemon", TRUE, "stopped (was not running)")
    /\ allOK /\ ~failPrinted

\* ------------------------------------------------------------------ starting store daemons
\* Phase 6 of runReload on workspaces whose store daemons are up or down,
\* run any number of times.
AlreadyRunning == <<"already", "running">>

\* What `bd daemon start` does in a workspace: where the daemon is up it
\* reports that and leaves it up; where it is down it either brings it up or
\* fails with another message.
BdStartOutcomes(up) ==
    IF up
    THEN {[cmdErr |-> e, output |-> o, upAfter |-> TRUE] :
              e \in BOOLEAN,
              o \in { <<"Error:", "daemon", "already", "running">>,
                      <<"daemon", "already", "running", "(pid", "42)">> }}
    ELSE {[cmdErr |-> FALSE, output |-> <<>>, upAfter |-> TRUE],
          [cmdErr |-> FALSE, output |-> <<"daemon", "started">>, upAfter |-> TRUE]}
         \cup {[cmdErr |-> TRUE, output |-> o, upAfter |-> FALSE] :
                   o \in { <<>>, <<"permission", "denied">>,
                           <<"no", "database", "found,", "run", "bd", "init">>,
                           <<"running", "already?">> }}

StartWorkspaces == {TownRoot} \cup {RigDir(RigPool[k]) : k \in 1..MaxRigs}

\* One round of `for _, ws := range bdWorkspaces { startBdDaemon(ws) ... }`.
StartBdDaemonAt(ws) ==
    /\ pc = "idle"
    /\ \E o \in BdStartOutcomes(ws \in bdUp) :
          LET err == startBdDaemon(o.cmdErr, Contains(o.output, AlreadyRunning))
          IN  /\ RecordStart("bd daemon", err, "started")
              /\ lastStart' = [ws |-> ws, wasUp |-> ws \in bdUp, cmdErr |-> o.cmdErr,
                               output |-> o.output, err |-> err]
              /\ bdUp' = IF o.upAfter THEN bdUp \cup {ws} ELSE bdUp \ {ws}
    /\ UNCHANGED <<pc, idx, result, cfgVars, calls, bdWorkspaces, phase9Vars, events,
                   fsVars, sessions, resetVars, lastStop, prevStop, libVars>>

StartInit ==
    /\ pc = "idle" /\ result = "none" /\ townRootFound = TRUE /\ reloadForce = FALSE
    /\ sessions = {}
    /\ files = {} /\ dirs = {} /\ redirects = <<>>
    /\ NoReload /\ NoReset
    /\ lastStop = NoStopCall /\ prevStop = NoStopCall /\ lastStart = NoStartCall
    /\ bdUp \in SUBSET StartWorkspaces
    /\ NoLib

StartNext == \E ws \in StartWorkspaces : StartBdDaemonAt(ws)

StartSpec == StartInit /\ [][StartNext]_vars

Started == lastStart.ws # <<>>

\* C14: a start of a store daemon that is already running returns no error
\* and is recorded as ok, so starting again the daemons that are up records no
\* failure; a start that fails with any other report returns the error, which
\* is recorded as a failure.
C14_AlreadyRunningIsSuccess ==
    /\ (Started /\ lastStart.wasUp) =>
          /\ lastStart.err = "nil"
          /\ lastStatus = Status("bd daemon", TRUE, "started")
          /\ lastStart.ws \in bdUp
    /\ (Started /\ Contains(lastStart.output, AlreadyRunning)) => lastStart.err = "nil"
    /\ (Started /\ lastStart.cmdErr /\ ~Contains(lastStart.output, AlreadyRunning)) =>
          /\ lastStart.err # "nil"
          /\ lastStatus.name = "bd daemon" /\ ~lastStatus.ok /\ ~allOK
    /\ (Started /\ ~lastStart.cmdErr) => lastStart.err = "nil"
    /\ allOK = ~failPrinted

\* Every daemon is up, the last start found its daemon up and got a
\* non-zero exit that says so, and no failure is on record.
C14_Witness ==
    /\ Started /\ lastStart.wasUp /\ lastStart.cmdErr
    /\ bdUp = StartWorkspaces /\ allOK

\* A start that failed with another report.
C14_WitnessOther == Started /\ lastStart.cmdErr /\ lastStart.err # "nil" /\ ~allOK

\* What phase 8 has to record for the manager answer kept in lastStart.
RecordedAs(name, detail) ==
    IF lastStart.output \in {<<"nil">>, <<"ErrAlreadyRunning">>}
    THEN lastStatus = Status(name, TRUE, detail) /\ lastStart.err = "nil"
    ELSE lastStatus.name = name /\ ~lastStatus.ok /\ ~allOK /\ lastStart.err # "nil"

\* C15: a run that passed its preconditions attempts the start of the
\* deacon once, whatever was recorded before; an already-running answer of
\* the deacon or mayor manager is recorded as ok and leaves the overall flag
\* as it was, any other error is recorded as a failure.
C15_DeaconAlwaysStarted ==
    /\ []((Passed /\ pc \in {"p9pre", "p9start", "p9fold", "p10", "summary", "done"}) =>
             Cardinality({k \in DOMAIN calls : calls[k] = Call("start", "Deacon", "", <<>>)}) = 1)
    /\ [](pc \in {"p9pre", "p9start", "p9fold"} =>
             lastStart.ws = <<"hq", "deacon">> /\ RecordedAs("Deacon", "hq-deacon"))
    /\ []((pc = "p8d" /\ reloadMayor) =>
             lastStart.ws = <<"hq", "mayor">> /\ RecordedAs("Mayor", "hq-mayor"))
    /\ [][(pc \in {"p8m", "p8d"} /\ lastStart'.output \in {<<"nil">>, <<"ErrAlreadyRunning">>})
             => allOK' = allOK]_vars

\* The deacon was found running by a run that had recorded a failure before.
C15_Witness ==
    /\ pc = "p9pre" /\ ~allOK
    /\ lastStart.ws = <<"hq", "deacon">> /\ lastStart.output = <<"ErrAlreadyRunning">>
    /\ lastStatus = Status("Deacon", TRUE, "hq-deacon")

\* C16: when the workspace root is not found or the multiplexer is not
\* available, runReload returns an error at once: nothing was stopped or
\* started, no workspace was looked for, no status was printed and no event
\* was emitted.
C16_AbortBeforeAnyService ==
    ~Passed =>
        /\ pc \in {"start", "done"}
        /\ calls = <<>> /\ bdWorkspaces = <<>> /\ events = 0
        /\ lastStatus = NoStatus /\ allOK /\ ~failPrinted
        /\ lastStart = NoStartCall
        /\ pc = "done" =>
              result = (IF ~townRootFound THEN "not in a Gas Town workspace"
                        ELSE "tmux not available")

\* A run in a town with rigs and store daemons ended because the
\* multiplexer is not available.
C16_Witness ==
    /\ pc = "done" /\ townRootFound /\ ~tmuxAvailable /\ result = "tmux not available"
    /\ Len(rigs) >= 1 /\ Stat(Join(TownRoot, <<".beads", "beads.db">>))
    /\ reloadPolecats /\ reloadMayor

\* A run outside a town.
C16_WitnessNoRoot == pc = "done" /\ ~townRootFound /\ result = "not in a Gas Town workspace"

PolecatCalls == {k \in DOMAIN calls : calls[k].kind = "Polecats"}

\* C17: with includePolecats clear no stop and no start is addressed to a
\* polecat and no polecat status is printed; with it set the polecats are
\* stopped first of all and, by the end of the run, started for every rig.
C17_PolecatsOnlyIfIncluded ==
    /\ ~reloadPolecats =>
          PolecatCalls = {} /\ lastStatus.name \notin {"Polecats", "Polecat"}
    /\ (reloadPolecats /\ Passed /\ pc \notin {"start", "p1"}) =>
          /\ calls[1] = Call("stop", "Polecats", "", <<>>)
          /\ \A k \in PolecatCalls : k = 1 \/ calls[k].op = "start"
    /\ (reloadPolecats /\ Passed /\ pc \in {"summary", "done"}) =>
          \A r \in RigSet(rigs) :
              Cardinality({k \in PolecatCalls : calls[k] = Call("start", "Polecats", r, <<>>)}) = 1

\* A complete run over rigs with the flag clear.
C17_Witness == pc = "done" /\ Passed /\ ~reloadPolecats /\ Len(rigs) >= 1 /\ Len(calls) > 4

\* A complete run with the flag set that started polecats.
C17_WitnessSet ==
    /\ pc = "done" /\ reloadPolecats /\ Len(rigs) >= 1
    /\ lastStatus = Status("Polecat", TRUE, "started")

Tasks9 == <<prefetched, witnessResults, refineryResults>>
Settled(r) == witnessResults[r] # "pending" /\ refineryResults[r] # "pending"

C19_EventOnceOnFullSuccess ==
    /\ events \in {0, 1}
    /\ pc # "done" => events = 0
    /\ pc = "done" => (events = 1 <=> (Passed /\ ~failPrinted))
    /\ events = 1 => (result = "nil" /\ allOK)
    /\ failPrinted => events = 0

\* A run over rigs and store daemons in which nothing failed.
C19_Witness ==
    /\ pc = "done" /\ events = 1 /\ Len(rigs) >= 1 /\ Len(bdWorkspaces) >= 1
    /\ reloadMayor /\ reloadPolecats

\* A complete run that recorded a failure.
C19_WitnessFailed == pc = "done" /\ Passed /\ failPrinted /\ events = 0

\* ------------------------------------------------------------------ reset properties, continued
\* The paths of a purge list that are on disk although they could be removed.
LeftBehind(paths) == {p \in Range(paths) : p \in files /\ RemoveOK(p, files)}
\* The removals of a purge list that failed: the paths are still on disk.
FailedOf(paths) == {"remove " \o Base(p) : p \in {q \in Range(paths) : q \in files}}
BdCmds == {bdCalls[k].cmd : k \in DOMAIN bdCalls}

\* C20: a removal that fails stops nothing. Right after each purge step every
\* path of its list is gone unless its own removal failed, a path that was
\* missing is no failure, and a confirmed run ends with all ten steps gone
\* through, the store recreation and the configuration commands issued and
\* a nil result, whatever removals failed.
C20_PurgeMakesMaximalProgress ==
    /\ pc = "PurgeLogs" =>
          LeftBehind(DbPaths) = {} /\ failures = FailedOf(DbPaths)
    /\ pc = "PurgeRuntimeState" =>
          /\ LeftBehind(JsonlFiles \o <<ActivityPath>>) = {}
          /\ failures = FailedOf(JsonlFiles \o <<ActivityPath>>)
    /\ pc = "RecreateStore" =>
          /\ LeftBehind(AgentStateFiles) = {}
          /\ \A p \in RuntimeEntries(files) : ~RemoveOK(p, files)
          /\ failures = FailedOf(AgentStateFiles)
                           \cup {"remove " \o Base(p) : p \in RuntimeEntries(files)}
    /\ (pc = "exit" /\ townRootFound /\ Confirmed) =>
          /\ steps = ResetSteps /\ result = "nil"
          /\ {"init", "config set"} \subseteq BdCmds
          /\ LeftBehind(AgentStateFiles) = {}
          /\ \A p \in RuntimeEntries(files) : ~RemoveOK(p, files)

\* A confirmed reset is over in a town whose .runtime directory cannot be
\* written: its entry is still there, the files listed after it are gone and
\* the store was recreated.
C20_Witness ==
    /\ pc = "exit" /\ steps = ResetSteps
    /\ Join(TownRoot, <<".runtime">>) \in locked
    /\ Join(TownRoot, <<".runtime", "handoff.json">>) \in files
    /\ Join(TownRoot, <<"deacon", "state.json">>) \notin files
    /\ Join(TownRoot, <<"deacon", ".runtime", "session.json">>) \notin files
    /\ TownDb \in files

\* The last n store commands of the run.
LastBdCalls(n) ==
    IF Len(bdCalls) < n THEN <<>> ELSE SubSeq(bdCalls, Len(bdCalls) - n + 1, Len(bdCalls))
\* The rigs of the loaded configuration that declare a store prefix.
RoutedRigs ==
    {r \in DOMAIN rigsConfig : rigsConfig[r].BeadsConfig /\ rigsConfig[r].Prefix # ""}
\* The routes of the log with the given prefix.
RoutesWith(prefix) == {k \in DOMAIN routes : routes[k].Prefix = prefix}

\* C21: no failure of the restore steps ends the reset. When RestoreConfig is
\* over all three configuration commands were issued, and each one that
\* failed has its warning; in RebuildRoutes every route that could not be
\* appended has its warning, the route of the town and of every rig that
\* declares a prefix was either appended or warned about, and a confirmed run
\* ends with Done and a nil result.
C21_RestoreFailuresWarnedNotFatal ==
    /\ pc = "RebuildRoutes" =>
          /\ [k \in 1..3 |-> LastBdCalls(3)[k].key] = [k \in 1..3 |-> ConfigFacts[k].key]
          /\ \A k \in DOMAIN ConfigFacts :
                ("config set " \o ConfigFacts[k].key) \in failures
                    <=> ConfigFacts[k].warning \in warnings
    /\ pc \in {"LoadRigs", "RigRoutes", "exit"} =>
          \A label \in {"town route"} \cup {"route for " \o r : r \in RigNames} :
             ("append route " \o label) \in failures
                 <=> ("Could not restore " \o label) \in warnings
    /\ (pc \in {"LoadRigs", "RigRoutes"} \/ (pc = "exit" /\ steps = ResetSteps)) =>
          RoutesWith("hq-") # {} \/ "append route town route" \in failures
    /\ (pc = "exit" /\ steps = ResetSteps) =>
          \A r \in RoutedRigs :
             \/ RoutesWith(rigsConfig[r].Prefix \o "-") # {}
             \/ ("append route route for " \o r) \in failures
    /\ (pc = "exit" /\ townRootFound /\ Confirmed) => (steps = ResetSteps /\ result = "nil")

\* A confirmed reset is over although the town route and the route of a rig
\* could not be appended: both were warned about.
C21_Witness ==
    /\ pc = "exit" /\ steps = ResetSteps /\ result = "nil"
    /\ "Could not restore town route" \in warnings
    /\ \E r \in RoutedRigs : ("Could not restore route for " \o r) \in warnings

\* RestoreConfig is over and two of its three commands failed.
C21_WitnessConfig ==
    /\ pc = "RebuildRoutes"
    /\ Cardinality(warnings) = 2 /\ Cardinality(failures) = 2

\* ------------------------------------------------------------------ deleteAllBeads on its own
\* Largest number of items `bd list` prints.
MaxItems == 3
\* The identifiers the store can hold.
ItemPool ==
    { <<"h", "q", "-", "1">>, <<"h", "q", "-", "2">>, <<"g", "t", "-", "1">>,
      <<"h", "q", "x", "-", "1">>, <<"h", "q", "-", "c", "v", "-", "1">>, <<"h", "q">> }
ItemSeqs == UNION {[1..n -> ItemPool] : n \in 0..MaxItems}
\* What the bd binary can answer to the commands of deleteAllBeads.
BdOutputs ==
    [prefixErr : BOOLEAN, prefixOut : PrefixOutputs,
     listOut : {[kind |-> k, issues |-> <<>>] : k \in {"failed", "garbage"}}
                   \cup {[kind |-> "json", issues |-> l] : l \in ItemSeqs},
     deleteErr : BOOLEAN]

\* One call deleteAllBeads(townRoot).
RunDeleteAllBeads ==
    /\ pc = "idle"
    /\ pc' = "done"
    /\ LET r == deleteAllBeads(bdOutput.prefixErr, bdOutput.prefixOut, bdOutput.listOut,
                               bdOutput.deleteErr)
       IN  /\ bdCalls' = r.calls
           /\ failures' = IF r.err = "nil" THEN {} ELSE {r.err}
    /\ UNCHANGED <<resetFrame, result, files, dirs, sessions, bdRunning, steps, tmuxCalls,
                   warnings, routes, rigsConfig, pending>>

DeleteInit ==
    /\ pc = "idle" /\ result = "none" /\ townRootFound = TRUE /\ reloadForce = FALSE
    /\ sessions = {}
    /\ files = {} /\ dirs = {} /\ redirects = <<>>
    /\ NoReload /\ NoReset /\ NoStop
    /\ bdOutput \in BdOutputs /\ firstRun = NoFirstRun /\ resolved = NoLookup /\ NoAuth
    /\ polecats = NoPolecats

DeleteNext == RunDeleteAllBeads

DeleteSpec == DeleteInit /\ [][DeleteNext]_vars

\* The identifier starts with the prefix and a dash.
StartsWithDash(id, prefix) ==
    /\ Len(id) > Len(prefix)
    /\ \A k \in 1..Len(prefix) : id[k] = prefix[k]
    /\ id[Len(prefix) + 1] = "-"
\* The subsequence of the items a predicate holds for.
RECURSIVE Selected(_, _)
Selected(items, prefix) ==
    IF items = <<>> THEN <<>>
    ELSE IF StartsWithDash(Head(items), prefix)
         THEN <<Head(items)>> \o Selected(Tail(items), prefix)
         ELSE Selected(Tail(items), prefix)
\* The identifiers handed to `bd delete`, over all delete commands issued.
DeletedIds == UNION {Range(bdCalls[k].ids) : k \in {j \in DOMAIN bdCalls : bdCalls[j].cmd = "delete"}}
\* deleteAllBeads got as far as its filter loop.
Listed == pc = "done" /\ ~bdOutput.prefixErr /\ TrimSpace(bdOutput.prefixOut) # <<>>
              /\ bdOutput.listOut.kind = "json"

\* C22: the items handed to the delete command are exactly the listed items
\* whose identifier starts with the configured prefix followed by a dash:
\* each of them and no other, in the order listed; when there is none, no
\* delete command is issued. Where the prefix is hq and the items are hq-1,
\* hq-2, gt-1, the selection is hq-1, hq-2.
C22_SelectsExactlyPrefixDash ==
    /\ Listed =>
          LET prefix == TrimSpace(bdOutput.prefixOut)
              items  == bdOutput.listOut.issues
          IN  /\ DeletedIds = {id \in Range(items) : StartsWithDash(id, prefix)}
              /\ \A k \in DOMAIN bdCalls :
                    bdCalls[k].cmd = "delete" =>
                        /\ k = Len(bdCalls)
                        /\ bdCalls[k].ids = Selected(items, prefix)
                        /\ bdCalls[k].ids # <<>>
    /\ (Listed /\ bdOutput.prefixOut = <<"h", "q", "\n">>
          /\ bdOutput.listOut.issues
                 = << <<"h", "q", "-", "1">>, <<"h", "q", "-", "2">>, <<"g", "t", "-", "1">> >>) =>
          bdCalls[Len(bdCalls)].ids = << <<"h", "q", "-", "1">>, <<"h", "q", "-", "2">> >>
    /\ (pc = "done" /\ ~Listed) => DeletedIds = {}

\* The prefix is hq and hq-1, hqx-1, gt-1 are listed: hq-1 alone is deleted.
C22_Witness ==
    /\ Listed /\ TrimSpace(bdOutput.prefixOut) = <<"h", "q">>
    /\ bdOutput.listOut.issues
           = << <<"h", "q", "-", "1">>, <<"h", "q", "x", "-", "1">>, <<"g", "t", "-", "1">> >>
    /\ DeletedIds = { <<"h", "q", "-", "1">> }

\* The example of the specification: hq-1, hq-2, gt-1 under the prefix hq.
C22_WitnessExample ==
    /\ Listed /\ bdOutput.prefixOut = <<"h", "q", "\n">>
    /\ bdOutput.listOut.issues
           = << <<"h", "q", "-", "1">>, <<"h", "q", "-", "2">>, <<"g", "t", "-", "1">> >>
    /\ DeletedIds = { <<"h", "q", "-", "1">>, <<"h", "q", "-", "2">> }

\* The route runReset has to append for rig r of the loaded configuration.
RigRouteOf(r) ==
    [Prefix |-> rigsConfig[r].Prefix \o "-",
     Path   |-> IF Join(TownRoot, <<r, "mayor", "rig", ".beads">>) \in files
                THEN <<r, "mayor", "rig">> ELSE <<r>>]
TownRoute == [Prefix |-> "hq-", Path |-> <<".">>]
\* RebuildRoutes has appended the town route and could write the routes log.
TownRouteAppended ==
    /\ pc \in {"LoadRigs", "RigRoutes"} \/ (pc = "exit" /\ steps = ResetSteps)
    /\ RoutesPath \in files
\* The rigs the route loop has visited.
Visited == DOMAIN rigsConfig \ pending

\* C23: what RebuildRoutes has appended to the routes log is the route of the
\* town (prefix hq-, path .) first, then one route for each rig visited that
\* declares a non-empty prefix and none for any other rig; the route of a rig
\* has the prefix of the rig followed by a dash and points at
\* <rig>/mayor/rig where that directory holds a store directory, else at
\* <rig>. When the loop is over every rig of the configuration was visited.
C23_TownRouteThenOnePerPrefixedRig ==
    /\ TownRouteAppended =>
          \E pre \in {<<>>, <<TownRoute>>} :
             LET n    == Len(pre) + 1
                 kids == SubSeq(routes, n + 1, Len(routes))
             IN  /\ Len(routes) >= n
                 /\ SubSeq(routes, 1, n) = Append(pre, TownRoute)
                 /\ Range(kids) = {RigRouteOf(r) : r \in RoutedRigs \cap Visited}
                 /\ Len(kids) = Cardinality(RoutedRigs \cap Visited)
    /\ pc = "LoadRigs" => pending = {} /\ rigsConfig = <<>>
    /\ (pc = "exit" /\ steps = ResetSteps) => pending = {}

\* The reset is over; the log holds the town route, the route of r1 at its
\* nested directory and the route of r2 at its own root.
C23_Witness ==
    /\ pc = "exit" /\ steps = ResetSteps
    /\ Len(routes) = 3 /\ routes[1] = TownRoute
    /\ Range(routes) = {TownRoute, [Prefix |-> "r1-", Path |-> <<"r1", "mayor", "rig">>],
                        [Prefix |-> "r2-", Path |-> <<"r2">>]}

\* The reset is over with a rig in the configuration that declares no
\* prefix: the log holds the town route and the route of the other rig.
C23_WitnessNoPrefix ==
    /\ pc = "exit" /\ steps = ResetSteps /\ RoutesPath \in files
    /\ DOMAIN rigsConfig = RigNames /\ Cardinality(RoutedRigs) = MaxRigs - 1
    /\ Len(routes) = MaxRigs

\* ------------------------------------------------------------------ two reset runs
\* `gt reset --force` is run once more in the town the first run left: the
\* routes log and the rig configuration of the first run are kept aside.
RunAgain ==
    /\ pc = "exit" /\ steps = ResetSteps /\ ~firstRun.done
    /\ firstRun' = [done |-> TRUE, routes |-> routes, rigsConfig |-> rigsConfig]
    /\ pc' = "start" /\ result' = "none"
    /\ steps' = <<>> /\ tmuxCalls' = <<>> /\ bdCalls' = <<>>
    /\ failures' = {} /\ warnings' = {}
    /\ rigsConfig' = <<>> /\ pending' = {}
    /\ UNCHANGED <<idx, tmuxAvailable, reloadMayor, reloadPolecats, reloadForce, rigs, allOK,
                   failPrinted, lastStatus, calls, bdWorkspaces, prefetched, witnessResults,
                   refineryResults, events, redirects, stopVars, bdOutput, resolved, authVars,
                   polecats,
                   resetCfg,
                   files, dirs, sessions, bdRunning, routes>>

TwoRunsInit ==
    /\ pc = "start" /\ result = "none" /\ reloadForce = FALSE
    /\ NoReload /\ NoStop /\ NoLib
    /\ redirects = <<>>
    /\ steps = <<>> /\ tmuxCalls = <<>> /\ bdCalls = <<>>
    /\ failures = {} /\ warnings = {}
    /\ rigsConfig = <<>> /\ pending = {}
    /\ townRootFound = TRUE
    /\ resetForce = TRUE /\ resetAll \in BOOLEAN
    /\ input = <<>>
    /\ sessions = {}
    /\ bdRunning = FALSE
    /\ files = FullTown /\ locked = {}
    /\ dirs = DirsOf(FullTown) \cup {TownRoot} \cup (EmptyDirs \cap FullTown)
    /\ routes = <<Route("hq-", <<".">>)>>

TwoRunsNext == ResetNext \/ RunAgain

TwoRunsSpec == TwoRunsInit /\ [][TwoRunsNext]_vars

\* C24: two reset runs that load the same rig configuration in the same town
\* leave the same sequence of records in the routes log.
C24_SameConfigSameRouteSequence ==
    (firstRun.done /\ pc = "exit" /\ steps = ResetSteps
        /\ rigsConfig = firstRun.rigsConfig) => routes = firstRun.routes

\* ------------------------------------------------------------------ findBdWorkspaces on its own
\* One call findBdWorkspaces(townRoot).
RunFindBdWorkspaces ==
    /\ pc = "idle"
    /\ pc' = "done"
    /\ bdWorkspaces' = findBdWorkspaces(TownRoot)
    /\ UNCHANGED <<idx, result, cfgVars, allOK, failPrinted, lastStatus, calls, phase9Vars,
                   events, otherVars>>

\* The towns discovery is run on: every rig is of one of the kinds.
FindInit ==
    /\ pc = "idle" /\ idx = 1 /\ result = "none"
    /\ townRootFound = TRUE /\ tmuxAvailable = TRUE
    /\ reloadMayor = FALSE /\ reloadPolecats = FALSE /\ reloadForce = FALSE
    /\ rigs \in RigLists
    /\ allOK = TRUE /\ failPrinted = FALSE /\ lastStatus = NoStatus
    /\ calls = <<>> /\ bdWorkspaces = <<>>
    /\ prefetched = <<>> /\ witnessResults = <<>> /\ refineryResults = <<>>
    /\ events = 0
    /\ \E townDb \in BOOLEAN, kindOf \in [RigSet(rigs) -> RigKinds] :
          LET l == Layout(rigs, townDb, kindOf)
          IN  files = l.files /\ dirs = l.dirs /\ redirects = l.redirects
    /\ sessions = {} /\ NoReset /\ NoStop /\ NoLib

FindNext == RunFindBdWorkspaces

FindSpec == FindInit /\ [][FindNext]_vars

\* The workspaces in the order the two loops of discovery come across them:
\* the town root, then rig by rig.
Found ==
    (IF Join(TownRoot, <<".beads", "beads.db">>) \in files THEN <<TownRoot>> ELSE <<>>)
        \o Candidates(rigs, 1)
\* Where path p is come across first.
FirstAt(p) == CHOOSE k \in DOMAIN Found :
                 Clean(Found[k]) = p /\ \A j \in 1..(k - 1) : Clean(Found[j]) # p

\* C25: the list discovery returns holds no path twice, every path in it is
\* absolute and clean, it holds every workspace that was come across, and
\* the paths stand in the order of their first occurrence: the town root
\* first when it has a data-store file (and nowhere when it has none), then
\* rig by rig in the order of the rig list, a rig's own or redirected
\* workspace before its nested one.
C25_DiscoveryUniqueInOrder ==
    pc = "done" =>
       /\ \A i, j \in DOMAIN bdWorkspaces : i # j => bdWorkspaces[i] # bdWorkspaces[j]
       /\ \A i \in DOMAIN bdWorkspaces : bdWorkspaces[i] = Clean(bdWorkspaces[i])
       /\ Range(bdWorkspaces) = {Clean(Found[k]) : k \in DOMAIN Found}
       /\ \A i, j \in DOMAIN bdWorkspaces :
             i < j => FirstAt(bdWorkspaces[i]) < FirstAt(bdWorkspaces[j])
       /\ IF Join(TownRoot, <<".beads", "beads.db">>) \in files
          THEN bdWorkspaces # <<>> /\ bdWorkspaces[1] = TownRoot
          ELSE TownRoot \notin Range(bdWorkspaces)

\* Two rigs are redirected to the same store, one of them by a path that is
\* not clean: the list holds the town root and then the store, once.
C25_Witness ==
    /\ pc = "done" /\ Len(rigs) >= 2
    /\ redirects[rigs[1]].path = <<"ext", "store">>
    /\ redirects[rigs[2]].path = <<"ext", ".", "store">>
    /\ bdWorkspaces = <<TownRoot, <<"ext", "store">>>>

\* A rig with its own and its nested store comes before a rig with a store.
C25_WitnessOrder ==
    /\ pc = "done" /\ Len(rigs) >= 2
    /\ bdWorkspaces = <<RigDir(rigs[1]), MayorRigDir(rigs[1]), RigDir(rigs[2])>>

\* Rig r holds a redirect marker in its store directory.
HasMarker(r) == Join(TownRoot, <<r, ".beads", "redirect">>) \in files
\* The target of the marker of rig r as an absolute path.
TargetOf(r) ==
    IF redirects[r].abs THEN Clean(redirects[r].path) ELSE Clean(TownRoot \o redirects[r].path)
HasDb(dir) == Append(dir, "beads.db") \in files

\* C26: a rig whose store directory holds a redirect marker is listed by the
\* target of the marker, made absolute against the town root, exactly when
\* the target holds a data-store file, and never by its own directory; a
\* marker whose target is missing or holds no data-store file adds nothing,
\* and the rigs without marker are listed all the same.
C26_RedirectResolvedOrSkipped ==
    pc = "done" =>
       /\ \A r \in RigSet(rigs) :
             HasMarker(r) =>
                /\ HasDb(TargetOf(r)) => TargetOf(r) \in Range(bdWorkspaces)
                /\ ~HasDb(TargetOf(r)) => TargetOf(r) \notin Range(bdWorkspaces)
                /\ RigDir(r) \notin Range(bdWorkspaces)
       /\ \A r \in RigSet(rigs) :
             /\ (~HasMarker(r) /\ HasDb(Append(RigDir(r), ".beads")))
                    <=> RigDir(r) \in Range(bdWorkspaces)
             /\ HasDb(Append(MayorRigDir(r), ".beads"))
                    <=> MayorRigDir(r) \in Range(bdWorkspaces)
       /\ Range(bdWorkspaces) \subseteq
             {TownRoot} \cup {RigDir(r) : r \in RigSet(rigs)}
                 \cup {MayorRigDir(r) : r \in RigSet(rigs)}
                 \cup {TargetOf(r) : r \in {q \in RigSet(rigs) : HasMarker(q)}}

\* The first rig is redirected to a target that does not exist, the second
\* has its own store: the list holds the second rig only.
C26_Witness ==
    /\ pc = "done" /\ Len(rigs) >= 2
    /\ HasMarker(rigs[1]) /\ TargetOf(rigs[1]) \notin files
    /\ bdWorkspaces = <<RigDir(rigs[2])>>

\* A rig is redirected by a relative marker to a store that holds a data
\* file: the list holds the target under the town root.
C26_WitnessResolved ==
    /\ pc = "done" /\ Len(rigs) >= 1
    /\ HasMarker(rigs[1]) /\ ~redirects[rigs[1]].abs
    /\ bdWorkspaces # <<>>
    /\ bdWorkspaces[1] = <<"town", rigs[1], "mayor", "rig", ".beads">>

\* A rig is redirected to a directory that exists and holds no data file:
\* nothing is listed.
C26_WitnessNoDb ==
    /\ pc = "done" /\ Len(rigs) = 1
    /\ HasMarker(rigs[1]) /\ TargetOf(rigs[1]) \in files /\ ~HasDb(TargetOf(rigs[1]))
    /\ bdWorkspaces = <<>>

\* ------------------------------------------------------------------ route resolution
\* Largest number of records in the routes log.
MaxRoutes == 3
\* Prefixes and identifiers are sequences of characters.
RoutePrefixes == { <<"h", "q", "-">>, <<"h", "q", "-", "c", "v", "-">>, <<"g", "t", "-">> }
RouteTargets == { <<".">>, <<"gastown", "mayor", "rig">> }
RoutePool == [Prefix : RoutePrefixes, Path : RouteTargets]
RouteLogs == UNION {[1..n -> RoutePool] : n \in 0..MaxRoutes}
Identifiers ==
    { <<"h", "q", "-", "c", "v", "-", "4", "2">>, <<"h", "q", "-", "9", "9">>,
      <<"g", "t", "-", "a", "b", "c">>, <<"h", "q">>, <<"x", "-", "1">> }

\* The records of the log whose prefix is a literal prefix of id.
Matching(rts, id) == {k \in DOMAIN rts : HasPrefix(id, rts[k].Prefix)}
\* Mutant: the first record that matches wins.
FirstMatching(rts, id) ==
    {k \in Matching(rts, id) : \A j \in Matching(rts, id) : k <= j}
\* The matching records no other matching record has a longer prefix than.
LongestMatching(rts, id) ==
    {k \in Matching(rts, id) :
        \A j \in Matching(rts, id) : Len(rts[j].Prefix) <= Len(rts[k].Prefix)}

\* resolve(identifier): the path of a longest matching record, NotFound when
\* no record matches. Which of several records with the same longest prefix
\* is taken is left open.
Resolve ==
    /\ pc = "idle"
    /\ pc' = "done"
    /\ IF Matching(routes, resolved.id) = {}
       THEN resolved' = [resolved EXCEPT !.done = TRUE]
       ELSE \E k \in LongestMatching(routes, resolved.id) :
               resolved' = [resolved EXCEPT !.done = TRUE, !.found = TRUE,
                                            !.path = routes[k].Path]
    /\ UNCHANGED <<idx, result, cfgVars, allOK, failPrinted, lastStatus, calls, bdWorkspaces,
                   phase9Vars, events, fsVars, sessions, resetVars, stopVars, bdOutput,
                   firstRun, authVars, polecats>>

RouteInit ==
    /\ pc = "idle" /\ result = "none" /\ townRootFound = TRUE /\ reloadForce = FALSE
    /\ sessions = {}
    /\ files = {} /\ dirs = {} /\ redirects = <<>>
    /\ NoReload /\ NoStop
    /\ resetForce = FALSE /\ resetAll = FALSE /\ input = <<>>
    /\ bdRunning = FALSE /\ locked = {}
    /\ steps = <<>> /\ tmuxCalls = <<>> /\ bdCalls = <<>>
    /\ failures = {} /\ warnings = {}
    /\ rigsConfig = <<>> /\ pending = {}
    /\ bdOutput = NoBdOutput /\ firstRun = NoFirstRun /\ NoAuth /\ polecats = NoPolecats
    /\ routes \in RouteLogs
    /\ \E id \in Identifiers : resolved = [NoLookup EXCEPT !.id = id]

RouteNext == Resolve

RouteSpec == RouteInit /\ [][RouteNext]_vars

\* The prefixes of the log that the identifier starts with.
PrefixesOf(id) ==
    {p \in {routes[k].Prefix : k \in DOMAIN routes} :
        Len(p) <= Len(id) /\ \A i \in 1..Len(p) : id[i] = p[i]}
\* The paths the log gives for prefix p.
PathsOf(p) == {routes[k].Path : k \in {j \in DOMAIN routes : routes[j].Prefix = p}}
Hq == <<"h", "q", "-">>
HqCv == <<"h", "q", "-", "c", "v", "-">>
Gt == <<"g", "t", "-">>

\* C27: whatever the order of the records, the path resolved for an
\* identifier is a path the log gives for the longest prefix the identifier
\* starts with, so it is that of the one longest matching route where the
\* log holds one path for that prefix; no matching prefix gives NotFound.
\* With hq- to A and hq-cv- to B, hq-cv-42 resolves to B and hq-99 to A;
\* with gt- to the rig directory and hq- to the town root, a gt- identifier
\* resolves to the rig directory and an hq- identifier to the town root.
C27_LongestMatchingPrefixWins ==
    resolved.done =>
       /\ resolved.found <=> PrefixesOf(resolved.id) # {}
       /\ resolved.found =>
             \E p \in PrefixesOf(resolved.id) :
                /\ \A q \in PrefixesOf(resolved.id) : Len(q) <= Len(p)
                /\ resolved.path \in PathsOf(p)
       /\ (PathsOf(Hq) = {<<".">>} /\ PathsOf(HqCv) = {<<"gastown", "mayor", "rig">>}) =>
             /\ resolved.id = <<"h", "q", "-", "c", "v", "-", "4", "2">> =>
                   resolved.path = <<"gastown", "mayor", "rig">>
             /\ resolved.id = <<"h", "q", "-", "9", "9">> => resolved.path = <<".">>
       /\ (PathsOf(Gt) = {<<"gastown", "mayor", "rig">>} /\ PathsOf(Hq) = {<<".">>}
             /\ PathsOf(HqCv) = {}) =>
             /\ resolved.id = <<"g", "t", "-", "a", "b", "c">> =>
                   resolved.path = <<"gastown", "mayor", "rig">>
             /\ resolved.id \in {<<"h", "q", "-", "9", "9">>,
                                 <<"h", "q", "-", "c", "v", "-", "4", "2">>} =>
                   resolved.path = <<".">>

\* The log holds hq- before hq-cv-, and hq-cv-42 is resolved by hq-cv-.
C27_Witness ==
    /\ resolved.done /\ resolved.id = <<"h", "q", "-", "c", "v", "-", "4", "2">>
    /\ routes = << [Prefix |-> Hq, Path |-> <<".">>],
                   [Prefix |-> HqCv, Path |-> <<"gastown", "mayor", "rig">>] >>
    /\ resolved.path = <<"gastown", "mayor", "rig">>

\* The same two records in the other order give the same answer.
C27_WitnessOtherOrder ==
    /\ resolved.done /\ resolved.id = <<"h", "q", "-", "c", "v", "-", "4", "2">>
    /\ routes = << [Prefix |-> HqCv, Path |-> <<"gastown", "mayor", "rig">>],
                   [Prefix |-> Hq, Path |-> <<".">>] >>
    /\ resolved.path = <<"gastown", "mayor", "rig">>

\* No record matches the identifier.
C27_WitnessNotFound ==
    /\ resolved.done /\ ~resolved.found /\ routes # <<>>

\* The paths reset is said to remove, given what is on disk: the database
\* files and structured logs of the three store directories, the event log
\* of the town, the activity file of the daemon, the files directly inside
\* the three runtime directories, and the state and heartbeat of the deacon.
Enumerated(p) ==
    \/ /\ Parent(p) \in { Join(TownRoot, <<".beads">>), Join(TownRoot, <<"deacon", ".beads">>),
                          Join(TownRoot, <<"mayor", ".beads">>) }
       /\ Base(p) \in { "beads.db", "beads.db-shm", "beads.db-wal", "issues.jsonl",
                        "interactions.jsonl", "routes.jsonl", "molecules.jsonl" }
    \/ p \in { Join(TownRoot, <<".events.jsonl">>), Join(TownRoot, <<"daemon", "activity.json">>),
               Join(TownRoot, <<"deacon", "state.json">>),
               Join(TownRoot, <<"deacon", "heartbeat.json">>) }
    \/ /\ Parent(p) \in { Join(TownRoot, <<".runtime">>), Join(TownRoot, <<"mayor", ".runtime">>),
                          Join(TownRoot, <<"deacon", ".runtime">>) }
       /\ p \notin dirs

\* C28: whatever a step of reset removes from disk is one of the enumerated
\* state files and no directory; every other path, the configuration files
\* among them, is on disk after the step as it was before.
C28_RemovesOnlyEnumeratedFiles ==
    [][\A p \in files : p \notin files' => (Enumerated(p) /\ p \notin dirs)]_vars

\* A confirmed reset is over: the state files are gone, and the store
\* configuration, the rig configuration, the directory inside a runtime
\* directory and the file below another one are still there.
C28_Witness ==
    /\ pc = "exit" /\ steps = ResetSteps
    /\ Join(TownRoot, <<".events.jsonl">>) \notin files
    /\ Join(TownRoot, <<".runtime", "handoff.json">>) \notin files
    /\ Join(TownRoot, <<"deacon", "state.json">>) \notin files
    /\ Join(TownRoot, <<"mayor", ".beads", "issues.jsonl">>) \notin files
    /\ { Join(TownRoot, <<".beads", "config.yaml">>), Join(TownRoot, <<"mayor", "rigs.json">>),
         Join(TownRoot, <<"mayor", ".runtime", "cache">>),
         Join(TownRoot, <<".runtime", "keep", "note">>) } \subseteq files

\* ------------------------------------------------------------------ web: sessions
\* Largest number of sessions Create hands out.
MaxSessions == 1
\* The last tick of the clock.
MaxTime == 2
\* sessionDuration, in ticks.
sessionDuration == 1

SessionPool == <<"s1", "s2", "s3", "s4">>
SessionIds == {SessionPool[k] : k \in 1..MaxSessions}
\* The values a gt_session cookie can carry, and the cookie of a request:
\* <<>> when the request has none.
CookieValues == SessionIds \cup {"nonexistent", ""}
Cookies == {<<>>} \cup {<<v>> : v \in CookieValues}

\* time.Now().After(session.ExpiresAt)
Expired(expiresAt, t) == t > expiresAt

\* SessionStore.Create, for the id generateSecureToken returned.
Create(st, id, t) ==
    [x \in DOMAIN st \cup {id} |-> IF x = id THEN t + sessionDuration ELSE st[x]]

\* Mutant: deleting one session empties the store.
DeleteEverySession(st, id) == <<>>
\* SessionStore.Delete
Delete(st, id) == [x \in DOMAIN st \ {id} |-> st[x]]

\* Mutant: a session is returned whatever its expiry time.
GetIgnoringExpiry(st, id, t) ==
    IF id \notin DOMAIN st THEN [found |-> FALSE, store |-> st]
    ELSE [found |-> TRUE, store |-> st]

\* SessionStore.Get: the session, or nil; an expired session is deleted.
Get(st, id, t) ==
    IF id \notin DOMAIN st THEN [found |-> FALSE, store |-> st]
    ELSE IF Expired(st[id], t) THEN [found |-> FALSE, store |-> Delete(st, id)]
    ELSE [found |-> TRUE, store |-> st]

\* SessionStore.CleanExpired
CleanExpired(st, t) == [x \in {y \in DOMAIN st : ~Expired(st[y], t)} |-> st[x]]

\* ------------------------------------------------------------------ web: AuthHandler
Passwords == {"short", "password1", "password2"}
\* bcrypt.GenerateFromPassword, without its salt.
Hash(password) == <<"bcrypt", password>>

\* The form of a POST to /login: the password typed, or a body ParseForm rejects.
LoginForms ==
    {[NoForm EXCEPT !.password = p, !.createErr = c] : p \in Passwords \cup {""},
                                                       c \in BOOLEAN}
    \cup {[NoForm EXCEPT !.parses = FALSE]}
\* The form of a POST to /setup: password and confirmation, and for a form
\* that passes validation which of the calls behind it fails, if any.
SetupForms ==
    {[NoForm EXCEPT !.password = p, !.confirm = c] : p \in Passwords, c \in Passwords}
    \cup {[NoForm EXCEPT !.password = "password2", !.confirm = "password2", ![f] = TRUE] :
             f \in {"hashErr", "saveErr", "createErr"}}
    \cup {[NoForm EXCEPT !.parses = FALSE]}
\* The requests sent to the handler; the cookie is looked at by /logout and
\* by the protected paths only.
Requests ==
    [path : {"/", "/convoys"}, method : {"GET"}, cookie : Cookies, form : {NoForm}]
    \cup [path : {"/logout"}, method : {"GET", "POST", "PUT"}, cookie : Cookies,
          form : {NoForm}]
    \cup [path : {"/login", "/setup"}, method : {"GET", "PUT"}, cookie : {<<>>},
          form : {NoForm}]
    \cup [path : {"/login"}, method : {"POST"}, cookie : {<<>>}, form : LoginForms]
    \cup [path : {"/setup"}, method : {"POST"}, cookie : {<<>>}, form : SetupForms]

\* What a handler decides: the response, the store after its lookups, the
\* enabled flag, and whether it goes on to create a session.
Answer(status, st, enabled, create) ==
    [status |-> status, store |-> st, enabled |-> enabled, create |-> create]
\* The answer together with the password hash and the configuration file.
WithConfig(a, hash, file) ==
    [status |-> a.status, store |-> a.store, enabled |-> a.enabled, create |-> a.create,
     hash |-> hash, file |-> file]

\* Mutant: the password is compared whether authentication is enabled or not.
CheckPasswordWhenDisabled(password, enabled, hash) ==
    IF hash = <<>> THEN FALSE ELSE hash = Hash(password)

\* AuthHandler.CheckPassword
CheckPassword(password, enabled, hash) ==
    IF ~enabled \/ hash = <<>> THEN FALSE ELSE hash = Hash(password)

\* AuthHandler.SetPassword, saveConfig included: the hash and the flag are
\* set in memory before the file is written.
SetPassword(form, enabled, hash, file) ==
    IF form.hashErr THEN [err |-> TRUE, enabled |-> enabled, hash |-> hash, file |-> file]
    ELSE IF form.saveErr
         THEN [err |-> TRUE, enabled |-> TRUE, hash |-> Hash(form.password), file |-> file]
         ELSE [err |-> FALSE, enabled |-> TRUE, hash |-> Hash(form.password),
               file |-> [exists |-> TRUE, PasswordHash |-> Hash(form.password),
                         Enabled |-> TRUE]]

\* handleLogin
handleLogin(method, form, st, enabled, hash) ==
    IF method = "GET" THEN Answer("login page", st, enabled, FALSE)
    ELSE IF method # "POST" THEN Answer("405", st, enabled, FALSE)
    ELSE IF ~form.parses THEN Answer("login page", st, enabled, FALSE)
    ELSE IF ~CheckPassword(form.password, enabled, hash)
         THEN Answer("login page", st, enabled, FALSE)
    ELSE Answer("redirect /", st, enabled, TRUE)

\* handleLogout
handleLogout(method, cookie, st, enabled) ==
    IF method \notin {"POST", "GET"} THEN Answer("405", st, enabled, FALSE)
    ELSE Answer("redirect /login",
                IF cookie # <<>> THEN Delete(st, cookie[1]) ELSE st, enabled, FALSE)

\* handleSetup
handleSetup(method, form, st, enabled, hash, file) ==
    IF enabled THEN WithConfig(Answer("redirect /login", st, enabled, FALSE), hash, file)
    ELSE IF method = "GET"
         THEN WithConfig(Answer("setup page", st, enabled, FALSE), hash, file)
    ELSE IF method # "POST" THEN WithConfig(Answer("405", st, enabled, FALSE), hash, file)
    ELSE IF ~form.parses
         THEN WithConfig(Answer("setup page", st, enabled, FALSE), hash, file)
    ELSE IF Len(form.password) < 8
         THEN WithConfig(Answer("setup page", st, enabled, FALSE), hash, file)
    ELSE IF form.password # form.confirm
         THEN WithConfig(Answer("setup page", st, enabled, FALSE), hash, file)
    ELSE LET sp == SetPassword(form, enabled, hash, file)
         IN  IF sp.err
             THEN WithConfig(Answer("setup page", st, sp.enabled, FALSE), sp.hash, sp.file)
             ELSE WithConfig(Answer("redirect /", st, sp.enabled, TRUE), sp.hash, sp.file)

\* Mutant: a request that carries a session cookie is served.
ServeProtectedAnyCookie(path, cookie, st, enabled, t) ==
    IF ~enabled
    THEN Answer(IF path = "/" THEN "redirect /setup" ELSE "protected", st, enabled, FALSE)
    ELSE IF cookie = <<>> THEN Answer("redirect /login", st, enabled, FALSE)
    ELSE Answer("protected", Get(st, cookie[1], t).store, enabled, FALSE)

\* ServeHTTP below its switch: the paths that are not /login, /logout, /setup.
ServeProtected(path, cookie, st, enabled, t) ==
    IF ~enabled
    THEN Answer(IF path = "/" THEN "redirect /setup" ELSE "protected", st, enabled, FALSE)
    ELSE IF cookie = <<>> THEN Answer("redirect /login", st, enabled, FALSE)
    ELSE LET g == Get(st, cookie[1], t)
         IN  Answer(IF g.found THEN "protected" ELSE "redirect /login", g.store, enabled, FALSE)

\* AuthHandler.ServeHTTP
ServeHTTP(req, st, enabled, hash, file, t) ==
    CASE req.path = "/login" ->
            WithConfig(handleLogin(req.method, req.form, st, enabled, hash), hash, file)
      [] req.path = "/logout" ->
            WithConfig(handleLogout(req.method, req.cookie, st, enabled), hash, file)
      [] req.path = "/setup" -> handleSetup(req.method, req.form, st, enabled, hash, file)
      [] OTHER ->
            WithConfig(ServeProtected(req.path, req.cookie, st, enabled, t), hash, file)

\* The status code of a response.
StatusCode(status) ==
    CASE status \in {"redirect /", "redirect /login", "redirect /setup"} -> 303
      [] status = "405" -> 405
      [] status = "500" -> 500
      [] OTHER -> 200

nonAuthVars == <<reloadVars, fsVars, sessions, resetVars, stopVars, bdOutput, firstRun,
                 resolved, polecats>>
setupVars == <<passwordHash, authFile, handlers>>

\* The ids generateSecureToken can still return: an id is never handed out twice.
FreshIds == SessionIds \ DOMAIN issued

\* One request answered by ServeHTTP; a handler that logs the client in
\* calls Create and sets the cookie, unless Create fails.
Request(req) ==
    LET a == ServeHTTP(req, store, authEnabled, passwordHash, authFile, now)
        logout == req.path = "/logout" /\ req.method \in {"POST", "GET"}
        gone == IF logout /\ req.cookie # <<>>
                THEN deleted \cup ({req.cookie[1]} \cap DOMAIN issued) ELSE deleted
        created == a.create /\ ~req.form.createErr /\ FreshIds # {}
        answered(cookie) ==
            [path |-> req.path, method |-> req.method, cookie |-> req.cookie,
             form |-> req.form,
             status |-> IF a.create /\ ~created THEN "500" ELSE a.status,
             setCookie |-> cookie]
    IN  /\ authEnabled' = a.enabled
        /\ passwordHash' = a.hash
        /\ authFile' = a.file
        /\ IF created
           THEN \E id \in FreshIds :
                   /\ store' = Create(a.store, id, now)
                   /\ issued' = Create(issued, id, now)
                   /\ deleted' = gone \ {id}
                   /\ lastReq' = answered(<<id>>)
           ELSE /\ store' = a.store /\ deleted' = gone /\ UNCHANGED issued
                /\ lastReq' = answered(IF logout THEN <<"">> ELSE <<>>)
        /\ lastGet' = NoGet
        /\ UNCHANGED <<now, handlers, nonAuthVars>>

\* store.Create() called directly.
CreateSession ==
    /\ \E id \in FreshIds :
          /\ store' = Create(store, id, now)
          /\ issued' = Create(issued, id, now)
          /\ deleted' = deleted \ {id}
    /\ lastReq' = NoRequest /\ lastGet' = NoGet
    /\ UNCHANGED <<authEnabled, now, setupVars, nonAuthVars>>

\* store.Get(id) called directly.
GetSession(id) ==
    LET g == Get(store, id, now)
    IN  /\ store' = g.store
        /\ lastGet' = [id |-> id, found |-> g.found]
        /\ lastReq' = NoRequest
        /\ UNCHANGED <<authEnabled, now, issued, deleted, setupVars, nonAuthVars>>

\* store.Delete(id) called directly.
DeleteSession(id) ==
    /\ store' = Delete(store, id)
    /\ deleted' = deleted \cup ({id} \cap DOMAIN issued)
    /\ lastReq' = NoRequest /\ lastGet' = NoGet
    /\ UNCHANGED <<authEnabled, now, issued, setupVars, nonAuthVars>>

\* cleanupLoop: one tick of its ticker.
CleanupTick ==
    /\ store' = CleanExpired(store, now)
    /\ lastReq' = NoRequest /\ lastGet' = NoGet
    /\ UNCHANGED <<authEnabled, now, issued, deleted, setupVars, nonAuthVars>>

\* Time passes.
Tick ==
    /\ now < MaxTime
    /\ now' = now + 1
    /\ lastReq' = NoRequest /\ lastGet' = NoGet
    /\ UNCHANGED <<authEnabled, store, issued, deleted, setupVars, nonAuthVars>>

\* settings/auth.json when the handler is constructed.
AuthFiles ==
    {NoFile} \cup [exists : {TRUE}, PasswordHash : {<<>>, Hash("password1")},
                   Enabled : BOOLEAN]

\* NewAuthHandler: loadConfig reads the configuration file, if there is one.
AuthInit ==
    /\ pc = "idle" /\ result = "none" /\ townRootFound = TRUE /\ reloadForce = FALSE
    /\ sessions = {}
    /\ files = {} /\ dirs = {} /\ redirects = <<>>
    /\ NoReload /\ NoReset /\ NoStop
    /\ bdOutput = NoBdOutput /\ firstRun = NoFirstRun /\ resolved = NoLookup
    /\ authFile \in AuthFiles
    /\ authEnabled = authFile.Enabled /\ passwordHash = authFile.PasswordHash
    /\ store = <<>> /\ now = 0 /\ issued = <<>> /\ deleted = {}
    /\ lastReq = NoRequest /\ lastGet = NoGet /\ handlers = <<>>
    /\ polecats = NoPolecats

AuthNext ==
    \/ \E req \in Requests : Request(req)
    \/ CreateSession
    \/ \E id \in CookieValues : GetSession(id)
    \/ \E id \in CookieValues : DeleteSession(id)
    \/ CleanupTick
    \/ Tick

AuthSpec == AuthInit /\ [][AuthNext]_vars

\* ------------------------------------------------------------------ web properties
ProtectedPath(p) == p \notin {"/login", "/logout", "/setup"}
\* The cookie names a session that is in the store and has not expired.
ValidSession(cookie) ==
    /\ cookie # <<>>
    /\ cookie[1] \in DOMAIN store
    /\ now <= store[cookie[1]]

\* C29: while authentication is enabled, a request to a protected path
\* reaches the protected handler exactly when its session cookie names a
\* session that is in the store and has not expired, a session that Create
\* handed out and nobody deleted; every other request to a protected path
\* is redirected to /login, and no request to /login, /logout or /setup
\* reaches the protected handler.
C29_ProtectedOnlyWithLiveSession ==
    [][lastReq' # NoRequest =>
          /\ (authEnabled /\ ProtectedPath(lastReq'.path)) =>
                IF ValidSession(lastReq'.cookie)
                THEN /\ lastReq'.status = "protected"
                     /\ lastReq'.cookie[1] \in DOMAIN issued \ deleted
                ELSE lastReq'.status = "redirect /login"
          /\ lastReq'.status = "protected" => ProtectedPath(lastReq'.path)]_vars

\* Authentication is enabled and a request with the cookie of a live session
\* was served by the protected handler.
C29_Witness ==
    /\ authEnabled /\ lastReq.status = "protected" /\ lastReq.path = "/"
    /\ lastReq.cookie # <<>> /\ lastReq.cookie[1] \in DOMAIN store

\* A request with the cookie of a session that has expired was redirected
\* to /login.
C29_WitnessExpired ==
    /\ authEnabled /\ lastReq.status = "redirect /login" /\ ProtectedPath(lastReq.path)
    /\ lastReq.cookie # <<>> /\ lastReq.cookie[1] \in DOMAIN issued \ deleted
    /\ now > issued[lastReq.cookie[1]]

\* A request with the cookie of a session that was logged out was redirected.
C29_WitnessDeleted ==
    /\ authEnabled /\ lastReq.status = "redirect /login" /\ ProtectedPath(lastReq.path)
    /\ lastReq.cookie # <<>> /\ lastReq.cookie[1] \in deleted

\* C30: Get(id) returns a session exactly when Create has returned the id,
\* Delete was not called for it since, and it has not expired; it returns
\* nil for an id that was never handed out and for one that was deleted; for
\* a session that has expired it returns nil and the session is in the store
\* no more; a Get that returns a session leaves the store as it was.
C30_GetIffCreatedNotDeletedNotExpired ==
    [][lastGet' # NoGet =>
          LET id == lastGet'.id
          IN  /\ lastGet'.found <=>
                    (id \in DOMAIN issued /\ id \notin deleted /\ now <= issued[id])
              /\ id \notin DOMAIN issued => ~lastGet'.found
              /\ id \in deleted => ~lastGet'.found
              /\ (id \in DOMAIN issued /\ now > issued[id]) =>
                    (~lastGet'.found /\ id \notin DOMAIN store')
              /\ lastGet'.found => (store' = store /\ id \in DOMAIN store')]_vars

\* Get found a session that Create handed out.
C30_Witness ==
    /\ lastGet.found /\ lastGet.id \in DOMAIN issued /\ lastGet.id \in DOMAIN store

\* Get returned nil for a session that had expired: the store holds it no more.
C30_WitnessExpired ==
    /\ lastGet # NoGet /\ ~lastGet.found
    /\ lastGet.id \in DOMAIN issued \ deleted /\ now > issued[lastGet.id]
    /\ lastGet.id \notin DOMAIN store

\* Get returned nil for a session that was deleted before it expired.
C30_WitnessDeleted ==
    /\ lastGet # NoGet /\ ~lastGet.found
    /\ lastGet.id \in deleted /\ now <= issued[lastGet.id]
\* ------------------------------------------------------------------ web properties: setup and login
SetupPost(r) == r.path = "/setup" /\ r.method = "POST" /\ r.form.parses
\* The form fails validation: the password is too short or the confirmation differs.
InvalidSetup(r) ==
    SetupPost(r) /\ (Len(r.form.password) < 8 \/ r.form.password # r.form.confirm)
ValidSetup(r) ==
    SetupPost(r) /\ Len(r.form.password) >= 8 /\ r.form.password = r.form.confirm
\* The step created exactly one session and handed its id to the client.
SessionCreated ==
    /\ Cardinality(DOMAIN issued' \ DOMAIN issued) = 1
    /\ DOMAIN store' \ DOMAIN store = DOMAIN issued' \ DOMAIN issued
    /\ lastReq'.setCookie # <<>> /\ lastReq'.setCookie[1] \in DOMAIN issued' \ DOMAIN issued
NoSessionCreated ==
    /\ issued' = issued /\ DOMAIN store' \subseteq DOMAIN store
    /\ (lastReq'.setCookie = <<>> \/ lastReq'.setCookie = <<"">>)

\* C31: authentication is disabled when there is no configuration file, and
\* it becomes enabled exactly in the step that sets a password; while it is
\* disabled, a POST /setup whose password is shorter than 8 characters or
\* whose confirmation differs leaves it disabled, stores no password and
\* creates no session, and a POST /setup that passes validation enables it,
\* creates a session and answers with a 303 redirect.
C31_SetupEnablesExactlyOnValidPost ==
    /\ ~authFile.exists => (~authEnabled /\ passwordHash = <<>>)
    /\ [][/\ authEnabled => authEnabled'
          /\ (~authEnabled /\ authEnabled') =>
                (ValidSetup(lastReq') /\ passwordHash' = Hash(lastReq'.form.password))
          /\ passwordHash' # passwordHash => (~authEnabled /\ authEnabled')
          /\ (lastReq' # NoRequest /\ ~authEnabled /\ InvalidSetup(lastReq')) =>
                /\ ~authEnabled' /\ passwordHash' = passwordHash /\ authFile' = authFile
                /\ NoSessionCreated /\ lastReq'.setCookie = <<>>
          /\ (lastReq' # NoRequest /\ ~authEnabled /\ ValidSetup(lastReq')) =>
                /\ authEnabled' /\ passwordHash' = Hash(lastReq'.form.password)
                /\ SessionCreated
                /\ lastReq'.status = "redirect /" /\ StatusCode(lastReq'.status) = 303]_vars
LoginPost(r) == r.path = "/login" /\ r.method = "POST" /\ r.form.parses
\* The password of the request is the one whose hash is stored, and
\* authentication is enabled.
CorrectLogin(r) ==
    LoginPost(r) /\ authEnabled /\ passwordHash = Hash(r.form.password)
WrongLogin(r) ==
    LoginPost(r) /\ (~authEnabled \/ passwordHash # Hash(r.form.password))
SuccessfulSetup(r) ==
    ValidSetup(r) /\ ~authEnabled /\ lastReq'.status = "redirect /"
\* SessionStore.Create returns a session.
CreateSucceeds(r) == ~r.form.createErr /\ FreshIds # {}

\* C32, as stated: a request creates a session only if it is a POST /login
\* with the stored password or a successful POST /setup; a POST /login with a
\* wrong password, or while authentication is disabled, creates no session
\* and sets no cookie; a correct login creates a session, sets its cookie
\* and answers with a 303 redirect.
C32_SessionOnlyByLoginOrSetup ==
    [][lastReq' # NoRequest =>
          /\ issued' # issued => (CorrectLogin(lastReq') \/ SuccessfulSetup(lastReq'))
          /\ WrongLogin(lastReq') =>
                (NoSessionCreated /\ lastReq'.setCookie = <<>>)
          /\ CorrectLogin(lastReq') =>
                /\ SessionCreated
                /\ lastReq'.status = "redirect /" /\ StatusCode(lastReq'.status) = 303]_vars

\* C32, amended: as above, but a correct login creates the session, sets
\* the cookie and redirects with 303 only when SessionStore.Create succeeds;
\* when Create fails the answer is 500, no session is created and no
\* cookie is set.
C32_SessionOnlyByLoginOrSetupUnlessCreateFails ==
    [][lastReq' # NoRequest =>
          /\ issued' # issued => (CorrectLogin(lastReq') \/ SuccessfulSetup(lastReq'))
          /\ WrongLogin(lastReq') =>
                /\ NoSessionCreated /\ lastReq'.setCookie = <<>>
                /\ StatusCode(lastReq'.status) = 200
          /\ (CorrectLogin(lastReq') /\ CreateSucceeds(lastReq')) =>
                /\ SessionCreated
                /\ lastReq'.status = "redirect /" /\ StatusCode(lastReq'.status) = 303
          /\ (CorrectLogin(lastReq') /\ ~CreateSucceeds(lastReq')) =>
                /\ NoSessionCreated /\ lastReq'.setCookie = <<>>
                /\ StatusCode(lastReq'.status) = 500]_vars

\* A login with the stored password was answered with a redirect to / and
\* the cookie of a session that is in the store.
C32_Witness ==
    /\ lastReq.path = "/login" /\ lastReq.method = "POST" /\ authEnabled
    /\ passwordHash = Hash(lastReq.form.password)
    /\ lastReq.status = "redirect /"
    /\ lastReq.setCookie # <<>> /\ lastReq.setCookie[1] \in DOMAIN store

\* A login with a wrong password got the login page again and no cookie.
C32_WitnessWrong ==
    /\ lastReq.path = "/login" /\ lastReq.method = "POST" /\ authEnabled
    /\ passwordHash # <<>> /\ passwordHash # Hash(lastReq.form.password)
    /\ lastReq.status = "login page" /\ lastReq.setCookie = <<>> /\ issued = <<>>

\* A login with the stored password while authentication is disabled got the
\* login page again and no cookie.
C32_WitnessDisabled ==
    /\ lastReq.path = "/login" /\ lastReq.method = "POST" /\ ~authEnabled
    /\ passwordHash = Hash(lastReq.form.password)
    /\ lastReq.status = "login page" /\ lastReq.setCookie = <<>> /\ issued = <<>>

\* A login with the stored password failed to create its session.
C32_WitnessCreateFails ==
    /\ lastReq.path = "/login" /\ lastReq.method = "POST" /\ authEnabled
    /\ passwordHash = Hash(lastReq.form.password) /\ lastReq.form.createErr
    /\ lastReq.status = "500" /\ lastReq.setCookie = <<>>
\* ------------------------------------------------------------------ deleteAllBeads, continued
DeleteCalls == {k \in DOMAIN bdCalls : bdCalls[k].cmd = "delete"}
\* The prefix was read: deleteAllBeads went on to list the items.
PrefixRead == pc = "done" /\ ~bdOutput.prefixErr /\ TrimSpace(bdOutput.prefixOut) # <<>>
\* The listed items whose identifier starts with the prefix and a dash.
Matched ==
    IF bdOutput.listOut.kind = "json"
    THEN Selected(bdOutput.listOut.issues, TrimSpace(bdOutput.prefixOut))
    ELSE <<>>

\* C33: one run of the purge of work items issues at most one delete
\* command. Once the prefix is read: when the listing fails, or no listed
\* item matches the prefix, no delete is issued and the step returns no
\* error; when some listed item matches, exactly one delete is issued, with
\* the cascade, hard and force flags, and its identifier arguments are all
\* the matched identifiers.
C33_AtMostOneDeleteCoveringAllMatches ==
    /\ Cardinality(DeleteCalls) <= 1
    /\ (PrefixRead /\ bdOutput.listOut.kind = "failed") =>
          (DeleteCalls = {} /\ failures = {})
    /\ (PrefixRead /\ bdOutput.listOut.kind = "json" /\ Matched = <<>>) =>
          (DeleteCalls = {} /\ failures = {})
    /\ (PrefixRead /\ Matched # <<>>) =>
          /\ Cardinality(DeleteCalls) = 1
          /\ \A k \in DeleteCalls :
                /\ {"--cascade", "--hard", "--force"} \subseteq Range(bdCalls[k].flags)
                /\ bdCalls[k].ids = Matched

\* Two of the three listed items match the prefix: one delete names both.
C33_Witness ==
    /\ PrefixRead /\ Len(Matched) = 2 /\ Len(bdOutput.listOut.issues) = 3
    /\ Cardinality(DeleteCalls) = 1
    /\ bdCalls[Len(bdCalls)].ids = Matched

\* The listing failed: nothing is deleted and no error is returned.
C33_WitnessListFails ==
    /\ PrefixRead /\ bdOutput.listOut.kind = "failed"
    /\ DeleteCalls = {} /\ failures = {} /\ Len(bdCalls) = 2

\* Items are listed and none matches: nothing is deleted, no error.
C33_WitnessNoMatch ==
    /\ PrefixRead /\ bdOutput.listOut.kind = "json" /\ Len(bdOutput.listOut.issues) = 2
    /\ Matched = <<>> /\ DeleteCalls = {} /\ failures = {}
\* ------------------------------------------------------------------ stopping polecats on its own
\* Largest number of polecats a rig's session manager lists.
MaxListed == 2
\* What the managers answer for one rig: the rig cannot be loaded, its
\* polecats cannot be listed, or the polecats are listed and each Stop
\* succeeds or fails.
ListedOutcomes ==
    {[load |-> "rigErr", stops |-> <<>>], [load |-> "listErr", stops |-> <<>>]}
    \cup {[load |-> "ok", stops |-> s] : s \in UNION {[1..k -> BOOLEAN] : k \in 0..MaxListed}}

\* Phase 1 of runReload against managers whose answers are known.
RunStopPolecats ==
    /\ ~polecats.done
    /\ Phase1(polecats.outcome)
    /\ LET r == reloadStopPolecats(rigs, polecats.outcome)
       IN  polecats' = [polecats EXCEPT !.done = TRUE,
                           !.stopped = IF reloadPolecats THEN r.stopped ELSE 0,
                           !.calls = IF reloadPolecats THEN r.calls ELSE <<>>]
    /\ UNCHANGED <<fsVars, sessions, resetVars, stopVars, bdOutput, firstRun, resolved,
                   authVars>>

PolecatInit ==
    /\ pc = "p1" /\ idx = 1 /\ result = "none"
    /\ townRootFound = TRUE /\ tmuxAvailable = TRUE
    /\ reloadMayor = FALSE /\ reloadPolecats \in BOOLEAN /\ reloadForce \in BOOLEAN
    /\ rigs \in RigLists
    /\ allOK = TRUE /\ failPrinted = FALSE /\ lastStatus = NoStatus
    /\ calls = <<>> /\ bdWorkspaces = <<>>
    /\ prefetched = [r \in RigSet(rigs) |-> "pending"]
    /\ witnessResults = [r \in RigSet(rigs) |-> "pending"]
    /\ refineryResults = [r \in RigSet(rigs) |-> "pending"]
    /\ events = 0
    /\ files = {} /\ dirs = {} /\ redirects = <<>>
    /\ sessions = {} /\ NoReset /\ NoStop
    /\ bdOutput = NoBdOutput /\ firstRun = NoFirstRun /\ resolved = NoLookup /\ NoAuth
    /\ \E outcome \in [RigSet(rigs) -> ListedOutcomes] :
          polecats = [NoPolecats EXCEPT !.outcome = outcome]

PolecatNext == RunStopPolecats

PolecatSpec == PolecatInit /\ [][PolecatNext]_vars

\* The polecats whose Stop is answered without an error, as <<rig, position>>.
StoppedOK ==
    {p \in RigSet(rigs) \X (1..MaxListed) :
        /\ polecats.outcome[p[1]].load = "ok"
        /\ p[2] \in DOMAIN polecats.outcome[p[1]].stops
        /\ polecats.outcome[p[1]].stops[p[2]]}
Called(op, r, k) == \E j \in DOMAIN polecats.calls : polecats.calls[j] = MgrCall(op, r, k)

\* C34: phase 1 with polecats included: the descriptor of every rig is asked
\* for, the polecats of every rig whose descriptor loads are listed, and
\* every listed polecat is asked to stop, whatever failed before it; a rig
\* that cannot be loaded or listed gets no stop; no failure is recorded and
\* the success flag stays as it was; the count returned is the number of
\* polecats whose stop returned no error, and it is the count reported.
C34_PolecatStopBestEffort ==
    (polecats.done /\ reloadPolecats) =>
        /\ \A r \in RigSet(rigs) :
              LET o == polecats.outcome[r]
              IN  /\ Called("GetRig", r, 0)
                  /\ Called("List", r, 0) <=> o.load # "rigErr"
                  /\ \A k \in 1..MaxListed :
                        Called("Stop", r, k) <=> (o.load = "ok" /\ k \in DOMAIN o.stops)
        /\ allOK /\ ~failPrinted /\ lastStatus.ok /\ result = "none"
        /\ polecats.stopped = Cardinality(StoppedOK)
        /\ lastStatus.name = "Polecats"
        /\ lastStatus.detail = IF Cardinality(StoppedOK) > 0
                               THEN Itoa(Cardinality(StoppedOK)) \o " stopped"
                               ELSE "none running"

\* The first rig cannot be loaded; in the second the stop of the first
\* polecat fails and the stop of the next one succeeds: one is counted.
C34_Witness ==
    /\ polecats.done /\ reloadPolecats /\ Len(rigs) = 2
    /\ polecats.outcome[rigs[1]].load = "rigErr"
    /\ polecats.outcome[rigs[2]] = [load |-> "ok", stops |-> <<FALSE, TRUE>>]
    /\ Called("Stop", rigs[2], 2)
    /\ polecats.stopped = 1 /\ lastStatus.detail = "1 stopped" /\ allOK

\* The polecats of the first rig cannot be listed: the second rig is
\* still processed.
C34_WitnessListErr ==
    /\ polecats.done /\ reloadPolecats /\ Len(rigs) = 2
    /\ polecats.outcome[rigs[1]].load = "listErr"
    /\ polecats.outcome[rigs[2]] = [load |-> "ok", stops |-> <<TRUE, TRUE>>]
    /\ polecats.stopped = 2 /\ lastStatus.detail = "2 stopped"

\* Every stop fails: nothing is counted and no failure is recorded.
C34_WitnessAllFail ==
    /\ polecats.done /\ reloadPolecats /\ Len(rigs) = 1
    /\ polecats.outcome[rigs[1]] = [load |-> "ok", stops |-> <<FALSE, FALSE>>]
    /\ polecats.stopped = 0 /\ lastStatus.detail = "none running" /\ allOK
\* ------------------------------------------------------------------ reload while the stores change
\* Between phase 5 and phase 6 somebody else creates or removes the
\* database of the town workspace.
StoreChanges ==
    /\ pc = "p6" /\ idx = 1
    /\ files' = IF TownDb \in files THEN files \ {TownDb}
                ELSE files \cup {TownBeads, TownDb}
    /\ dirs' = dirs \cup {TownBeads}
    /\ UNCHANGED <<reloadVars, redirects, sessions, resetVars, stopVars, libVars>>

\* gt reload --mayor --polecats
ChangingInit == Init /\ reloadMayor /\ reloadPolecats /\ ~reloadForce

ChangingNext == Next \/ StoreChanges

ChangingSpec == ChangingInit /\ [][ChangingNext]_vars

\* The workspaces of the store-daemon stops, and of the starts, in call order.
BdDaemonCalls(op) == SelectSeq(calls, LAMBDA c : c.op = op /\ c.kind = "bd daemon")
WorkspacesOf(op) == [k \in DOMAIN BdDaemonCalls(op) |-> BdDaemonCalls(op)[k].ws]
PastPhase6 == pc \in {"p7", "p8m", "p8d", "p9pre", "p9start", "p9fold", "p10", "summary",
                      "done"}

\* C35: the store daemons started in phase 6 are the workspaces a stop was
\* attempted on in phase 5, in the same order; the workspace list is set
\* once per run, after the control-daemon phase and before the first
\* store-daemon stop, and both phases walk that list.
C35_StartsWhatItStopped ==
    /\ [](/\ IsPrefix(WorkspacesOf("stop"), bdWorkspaces)
          /\ IsPrefix(WorkspacesOf("start"), WorkspacesOf("stop"))
          /\ WorkspacesOf("start") # <<>> => WorkspacesOf("stop") = bdWorkspaces
          /\ (PastPhase6 /\ Passed) => WorkspacesOf("start") = WorkspacesOf("stop"))
    /\ [][bdWorkspaces' # bdWorkspaces =>
             /\ pc = "p5find" /\ pc' = "p5"
             /\ WorkspacesOf("stop") = <<>> /\ WorkspacesOf("start") = <<>>]_vars

\* The database of the town workspace vanished between the phases: the
\* town's daemon was stopped and is started all the same.
C35_Witness ==
    /\ PastPhase6 /\ Passed /\ TownDb \notin files
    /\ Len(bdWorkspaces) >= 2 /\ bdWorkspaces[1] = TownRoot
    /\ WorkspacesOf("start") = bdWorkspaces /\ WorkspacesOf("stop") = bdWorkspaces

\* The database of the town workspace appeared between the phases: no
\* daemon is started for it.
C35_WitnessAppeared ==
    /\ PastPhase6 /\ Passed /\ TownDb \in files
    /\ \A k \in DOMAIN calls : calls[k].ws # TownRoot
    /\ WorkspacesOf("start") = WorkspacesOf("stop")
\* ------------------------------------------------------------------ stopping one session, continued
\* The status check of the last stop answered `running`.
ReportedRunning == lastStop.name # <<>> /\ ~lastStop.hasErr /\ lastStop.running
Sent(what) == what \in Range(lastStop.res.tmux)

\* C36: a stop whose status check failed, or answered `not running`, sends
\* neither an interrupt nor a kill and leaves the sessions as they are; the
\* result says wasRunning exactly when the status check answered `running`
\* and a kill was sent; a status check that fails is returned as an error,
\* with wasRunning false.
C36_NoSignalUnlessReportedRunning ==
    /\ [](lastStop.name # <<>> =>
            /\ ~ReportedRunning => (~Sent("keys") /\ ~Sent("kill"))
            /\ lastStop.res.wasRunning <=> (ReportedRunning /\ Sent("kill"))
            /\ lastStop.hasErr =>
                  (lastStop.res.err = "has-session failed" /\ ~lastStop.res.wasRunning))
    /\ [][(lastStop'.name # <<>> /\ (lastStop'.hasErr \/ ~lastStop'.running)) =>
             sessions' = sessions]_vars

\* The status check of a running session failed: nothing was sent, the
\* session is still there and the error is returned.
C36_Witness ==
    /\ lastStop.name # <<>> /\ lastStop.hasErr /\ lastStop.running
    /\ lastStop.name \in sessions
    /\ lastStop.res = StopResult(FALSE, "has-session failed", <<"has">>)

\* A running session was killed and the kill failed: wasRunning is true.
C36_WitnessKilled ==
    /\ ReportedRunning /\ Sent("kill") /\ lastStop.res.wasRunning
    /\ lastStop.res.err = "kill failed"
\* ---------------------------------------------------------------------------
\* One store, one daemon (reload.go 305-368, 138-161)
\* ---------------------------------------------------------------------------

\* The data file a discovered entry stands for: findBdWorkspaces lists a
\* workspace directory on finding <dir>/.beads/beads.db (310, 337, 344) and a
\* redirect target on finding <target>/beads.db (333).
StoreOf(ws) ==
    IF Stat(Join(ws, <<".beads", "beads.db">>))
    THEN Join(ws, <<".beads", "beads.db">>)
    ELSE Join(ws, <<"beads.db">>)

OneCallPerStore(op) ==
    \A i, j \in DOMAIN BdDaemonCalls(op) :
        StoreOf(BdDaemonCalls(op)[i].ws) = StoreOf(BdDaemonCalls(op)[j].ws) => i = j

\* C37: within one reload run no data store gets two store-daemon stops or
\* two store-daemon starts, and no two entries of the discovered workspace
\* list stand for the same data file.
C37_OneDaemonCallPerStore ==
    /\ OneCallPerStore("stop") /\ OneCallPerStore("start")
    /\ \A i, j \in DOMAIN bdWorkspaces :
          StoreOf(bdWorkspaces[i]) = StoreOf(bdWorkspaces[j]) => i = j
\* ---------------------------------------------------------------------------
\* The result of reset (part_000 50-259)
\* ---------------------------------------------------------------------------

\* C38: once the workspace root is found, runReset never returns an error:
\* its result is not set before it ends, it ends only at an aborted
\* confirmation or after the last step, whatever failed on the way, and it
\* ends with nil.
C38_ResetReturnsNilOnceRootFound ==
    /\ [](townRootFound =>
            /\ result \in {"none", "nil"}
            /\ (pc = "exit" <=> result = "nil"))
    /\ [][(townRootFound /\ pc # "exit" /\ pc' = "exit") =>
             \/ pc = "Confirm" /\ steps' = <<>>
             \/ pc = "RigRoutes" /\ steps' = ResetSteps]_vars

\* The reset ran to its end with the last route appends failed: nil.
C38_Witness ==
    /\ townRootFound /\ pc = "exit" /\ result = "nil"
    /\ Len(steps) > 0 /\ steps[Len(steps)] = "Done"
    /\ failures # {}

\* The store could not be recreated and the reset still ended with nil.
C38_WitnessNoStore ==
    /\ townRootFound /\ pc = "exit" /\ result = "nil"
    /\ "RecreateStore" \in Range(steps) /\ TownDb \notin files

\* The confirmation was aborted: no step ran and the result is nil.
C38_WitnessAborted ==
    townRootFound /\ ~resetForce /\ pc = "exit" /\ result = "nil" /\ steps = <<>>
\* ---------------------------------------------------------------------------
\* /setup requests handled at the same time (auth.go 337-397, 187-197)
\* ---------------------------------------------------------------------------
\* net/http serves every request on a goroutine of its own, and handleSetup
\* reads and writes ah.config without a lock: the steps of the handlers
\* below interleave.

MaxHandlers == 2

\* The forms posted: a short password, two valid ones, and valid ones for
\* which one of the calls behind the handler fails.
ConcurrentForms == {f \in SetupForms : f.parses /\ f.password = f.confirm}

\* The id generateSecureToken returns to the h-th handler.
Token(h) == "t" \o Itoa(h)

Handler(form, late) ==
    [form |-> form, pc |-> "check", late |-> late, setPassword |-> FALSE,
     status |-> "", setCookie |-> <<>>]

Finish(h, status) ==
    handlers' = [handlers EXCEPT ![h].pc = "done", ![h].status = status]
Move(h, to) == handlers' = [handlers EXCEPT ![h].pc = to]

\* A POST /setup arrives and its goroutine is started.
Arrive(form) ==
    /\ Len(handlers) < MaxHandlers
    /\ handlers' = Append(handlers, Handler(form, authEnabled))
    /\ UNCHANGED <<authEnabled, store, now, issued, deleted, lastReq, lastGet,
                   passwordHash, authFile, nonAuthVars>>

\* if ah.IsEnabled() { redirect }, then the validation of the form.
CheckEnabled(h) ==
    /\ handlers[h].pc = "check"
    /\ LET form == handlers[h].form
       IN  IF authEnabled THEN Finish(h, "redirect /login")
           ELSE IF ~form.parses \/ Len(form.password) < 8 \/ form.password # form.confirm
                THEN Finish(h, "setup page")
                ELSE Move(h, "hash")
    /\ UNCHANGED <<authEnabled, store, now, issued, deleted, lastReq, lastGet,
                   passwordHash, authFile, nonAuthVars>>

\* SetPassword: ah.config.PasswordHash = string(hash)
StoreHash(h) ==
    /\ handlers[h].pc = "hash"
    /\ IF handlers[h].form.hashErr
       THEN Finish(h, "setup page") /\ UNCHANGED passwordHash
       ELSE /\ passwordHash' = Hash(handlers[h].form.password)
            /\ handlers' = [handlers EXCEPT ![h].pc = "enable", ![h].setPassword = TRUE]
    /\ UNCHANGED <<authEnabled, store, now, issued, deleted, lastReq, lastGet,
                   authFile, nonAuthVars>>

\* SetPassword: ah.config.Enabled = true
Enable(h) ==
    /\ handlers[h].pc = "enable"
    /\ authEnabled' = TRUE
    /\ Move(h, "save")
    /\ UNCHANGED <<store, now, issued, deleted, lastReq, lastGet, passwordHash,
                   authFile, nonAuthVars>>

\* SetPassword: return ah.saveConfig(), which writes the config as it is in
\* memory at that moment.
Save(h) ==
    /\ handlers[h].pc = "save"
    /\ IF handlers[h].form.saveErr
       THEN Finish(h, "setup page") /\ UNCHANGED authFile
       ELSE /\ authFile' = [exists |-> TRUE, PasswordHash |-> passwordHash,
                            Enabled |-> authEnabled]
            /\ Move(h, "create")
    /\ UNCHANGED <<authEnabled, store, now, issued, deleted, lastReq, lastGet,
                   passwordHash, nonAuthVars>>

\* sessions.Create(), the cookie and the redirect to /.
CreateFor(h) ==
    /\ handlers[h].pc = "create"
    /\ IF handlers[h].form.createErr
       THEN Finish(h, "500") /\ UNCHANGED <<store, issued>>
       ELSE /\ store' = Create(store, Token(h), now)
            /\ issued' = Create(issued, Token(h), now)
            /\ handlers' = [handlers EXCEPT ![h].pc = "done", ![h].status = "redirect /",
                                            ![h].setCookie = <<Token(h)>>]
    /\ UNCHANGED <<authEnabled, now, deleted, lastReq, lastGet, passwordHash, authFile,
                   nonAuthVars>>

ConcurrentNext ==
    \/ \E form \in ConcurrentForms : Arrive(form)
    \/ \E h \in DOMAIN handlers : CheckEnabled(h)
    \/ \E h \in DOMAIN handlers : StoreHash(h)
    \/ \E h \in DOMAIN handlers : Enable(h)
    \/ \E h \in DOMAIN handlers : Save(h)
    \/ \E h \in DOMAIN handlers : CreateFor(h)

ConcurrentSpec == AuthInit /\ [][ConcurrentNext]_vars

GotSession(h) == handlers[h].setCookie # <<>>

\* C39: once authentication is enabled the stored hash is not changed through
\* /setup; of the /setup POSTs, handled one after another or at the same
\* time, at most one sets the password and at most one obtains a session;
\* a /setup request that arrives when authentication is enabled is
\* redirected to /login.
C39_SetupSetsPasswordOnce ==
    /\ [](/\ Cardinality({h \in DOMAIN handlers : handlers[h].setPassword}) <= 1
          /\ Cardinality({h \in DOMAIN handlers : GotSession(h)}) <= 1
          /\ \A h \in DOMAIN handlers :
                (handlers[h].late /\ handlers[h].pc = "done") =>
                    (handlers[h].status = "redirect /login" /\ ~GotSession(h)))
    /\ [][authEnabled => passwordHash' = passwordHash]_vars
\* ---------------------------------------------------------------------------
\* Logout (auth.go 313-334, 97-101, 252-258)
\* ---------------------------------------------------------------------------

\* The sessions that are logged in when the logout requests begin.
MaxLoggedIn == 2
LoggedIn == {SessionPool[k] : k \in 1..MaxLoggedIn}
LogoutCookies == {<<v>> : v \in LoggedIn \cup {"nonexistent"}}

\* Requests to /logout and to a protected path, each with a session cookie.
LogoutRequests ==
    [path : {"/logout"}, method : {"GET", "POST", "PUT"}, cookie : LogoutCookies,
     form : {NoForm}]
    \cup [path : {"/convoys"}, method : {"GET"}, cookie : LogoutCookies, form : {NoForm}]

\* A handler with a password set and some sessions created by logins at time 0.
LogoutInit ==
    /\ pc = "idle" /\ result = "none" /\ townRootFound = TRUE /\ reloadForce = FALSE
    /\ sessions = {}
    /\ files = {} /\ dirs = {} /\ redirects = <<>>
    /\ NoReload /\ NoReset /\ NoStop
    /\ bdOutput = NoBdOutput /\ firstRun = NoFirstRun /\ resolved = NoLookup
    /\ authFile = [exists |-> TRUE, PasswordHash |-> Hash("password1"), Enabled |-> TRUE]
    /\ authEnabled = authFile.Enabled /\ passwordHash = authFile.PasswordHash
    /\ now = 0 /\ deleted = {}
    /\ \E S \in SUBSET LoggedIn :
          store = [x \in S |-> now + sessionDuration] /\ issued = store
    /\ lastReq = NoRequest /\ lastGet = NoGet /\ handlers = <<>>
    /\ polecats = NoPolecats

LogoutNext ==
    \/ \E req \in LogoutRequests : Request(req)
    \/ Tick

LogoutSpec == LogoutInit /\ [][LogoutNext]_vars

\* The step handled a /logout request that carried a cookie.
LogoutHandled == lastReq' # NoRequest /\ lastReq'.path = "/logout" /\ lastReq'.cookie # <<>>
\* The step handled a request to a protected path with the cookie of a
\* session that a logout has deleted.
AfterLogout ==
    /\ lastReq' # NoRequest /\ ProtectedPath(lastReq'.path)
    /\ lastReq'.cookie # <<>> /\ lastReq'.cookie[1] \in deleted

\* C40 as stated: after any /logout request carrying a session cookie the
\* session is in the store no more and the other sessions are unchanged;
\* later requests with that id to a protected path are redirected to /login.
C40_LogoutDeletesSession ==
    /\ [][LogoutHandled => store' = Delete(store, lastReq'.cookie[1])]_vars
    /\ [][AfterLogout => lastReq'.status = "redirect /login"]_vars

\* C40, amended: a GET or POST /logout with a session cookie removes the
\* named session and nothing else from the store, clears the cookie and
\* redirects to /login; a /logout with another method answers 405 and
\* leaves the store as it is; while authentication is enabled every later
\* request with the id of a logged-out session to a protected path is
\* redirected to /login and served nothing.
C40_GetOrPostLogoutDeletesSession ==
    /\ [][LogoutHandled =>
            IF lastReq'.method \in {"GET", "POST"}
            THEN /\ lastReq'.cookie[1] \notin DOMAIN store'
                 /\ DOMAIN store' = DOMAIN store \ {lastReq'.cookie[1]}
                 /\ \A x \in DOMAIN store' : store'[x] = store[x]
                 /\ lastReq'.cookie[1] \in DOMAIN issued => lastReq'.cookie[1] \in deleted'
                 /\ lastReq'.status = "redirect /login" /\ lastReq'.setCookie = <<"">>
            ELSE store' = store /\ deleted' = deleted /\ lastReq'.status = "405"]_vars
    /\ [][(AfterLogout /\ authEnabled) =>
            (lastReq'.status = "redirect /login" /\ lastReq'.cookie[1] \notin DOMAIN store')]_vars

\* One of two live sessions was logged out: the other is still in the store.
C40_Witness ==
    /\ lastReq.path = "/logout" /\ lastReq.method = "POST" /\ lastReq.cookie # <<>>
    /\ lastReq.cookie[1] \in deleted /\ lastReq.cookie[1] \notin DOMAIN store
    /\ \E x \in DOMAIN store : x # lastReq.cookie[1] /\ store[x] = issued[x] /\ now <= store[x]

\* A request with the id of a logged-out session, sent before the session
\* would have expired, was redirected to /login.
C40_WitnessRedirected ==
    /\ authEnabled /\ lastReq.path = "/convoys" /\ lastReq.status = "redirect /login"
    /\ lastReq.cookie # <<>> /\ lastReq.cookie[1] \in deleted
    /\ now <= issued[lastReq.cookie[1]]

\* A PUT /logout with the cookie of a live session: 405, the session stays.
C40_WitnessMethodNotAllowed ==
    /\ lastReq.path = "/logout" /\ lastReq.method = "PUT" /\ lastReq.status = "405"
    /\ lastReq.cookie # <<>> /\ lastReq.cookie[1] \in DOMAIN store

====
